---- MODULE Spec2Model ----
(***************************************************************************)
(* IP Address Aggregate: the address-normalization, range-expansion,       *)
(* CIDR-block and aggregation engine (normalizer.js and app.js).           *)
(*                                                                         *)
(* Address widths are scaled: an IPv4 address is NumOctets octets of       *)
(* OctetBits bits (8 in the program), an IPv6 address NumGroups groups of  *)
(* GroupBits bits (16 in the program).  Address text is kept as text: an   *)
(* IPv4 address is a sequence of octet texts, each a sequence of decimal   *)
(* digits, so "010" and "10" are different texts with the same value; an   *)
(* IPv6 address is its groups of hex digits left and right of a "::".      *)
(***************************************************************************)
EXTENDS Integers, Sequences, FiniteSets, TLC

VARIABLES
  pc,          \* position in the operation under way
  start, end, current, cidrs,   \* expandIPv4Range: arguments and locals
  cidrString, block, range,     \* CIDRBlock: the string parsed, the block, getRange()
  rendered,                     \* what a block renders to: lines, or its masks
  entry, result,                \* normalizeEntry: the entry and its result
  input, aggregated, reaggregated,
                                \* aggregateCIDRs: the CIDR strings given, what
                                \* it returns, and that aggregated once more
  sortedInput, aggregatedOutput,   \* app.js: the module-level variables that
  currentFormat,                   \* aggregateAddresses writes and reads
  sortedCIDRs,                  \* sortCIDRs: the CIDR strings sorted
  transformed,                  \* transformToFormat: the key and the outcome
  addrText, parsed, expandedText, compressedText, recompressedText,
                                \* IPv6 codec: the text given, the bytes parsed,
                                \* the expanded and compressed texts
  inputText, results,           \* normalizeInput: the text and the results
  clock, modal, calls           \* the processing modal: Date.now(), the call
                                \* whose modal is in the document, and the
                                \* calls of aggregateAddresses

splitVars == <<start, end, current, cidrs>>
blockVars == <<cidrString, block, range, rendered>>
normVars == <<entry, result>>
aggVars ==
  <<input, aggregated, reaggregated, sortedInput, aggregatedOutput, currentFormat,
    sortedCIDRs, transformed>>
codecVars == <<addrText, parsed, expandedText, compressedText, recompressedText>>
inputVars == <<inputText, results>>
modalVars == <<clock, modal, calls>>
vars ==
  <<pc, splitVars, blockVars, normVars, aggVars, codecVars, inputVars, modalVars>>

\* The value of a variable no operation has set yet
None == "none"

\* ---------------------------------------------------------------- bounds
OctetBits == 1
GroupBits == 1

\* ------------------------------------------------------ program constants
NumOctets == 4
NumGroups == 8

V4Width == NumOctets * OctetBits
V6Width == NumGroups * GroupBits

\* Math.pow(2, n) for n >= 0
RECURSIVE Pow2(_)
Pow2(n) == IF n <= 0 THEN 1 ELSE 2 * Pow2(n - 1)

MaxOctet == Pow2(OctetBits) - 1
MaxGroup == Pow2(GroupBits) - 1
MaxAddr4 == Pow2(V4Width) - 1
MaxAddr6 == Pow2(V6Width) - 1

\* ------------------------------------------------------------ decimal text
\* parseInt(o, 10) of a text of decimal digits
RECURSIVE parseInt10(_)
parseInt10(ds) ==
  IF Len(ds) = 0 THEN 0
  ELSE 10 * parseInt10(SubSeq(ds, 1, Len(ds) - 1)) + ds[Len(ds)]

\* n.toString() for an integer n >= 0
RECURSIVE toString10(_)
toString10(n) ==
  IF n < 10 THEN <<n>> ELSE Append(toString10(n \div 10), n % 10)

\* ------------------------------------------------------- IPv4 address text
\* An address text: the parts joined by sep, with an optional "::" marker
\* (dc) followed by the parts right of it.  "1.0.0.1" has sep ".", left
\* <<"1","0","0","1">>; "fe80::1" has sep ":", left <<"fe80">>, dc, right
\* <<"1">>.  A part is the sequence of its digits.  (The parts are kept as
\* tuples: << >> \o s is s with its elements evaluated once.)
AddrText(sep, left, dc, right) ==
  [sep |-> sep, left |-> <<>> \o left, dc |-> dc, right |-> <<>> \o right]

\* An IPv4 address text: the parts between the dots.
IPv4Text(parts) == AddrText(".", parts, FALSE, <<>>)

\* ipv4ToNumber: parts.map(Number), each shifted to its octet position
RECURSIVE SumOctets(_, _)
SumOctets(parts, i) ==
  IF i > Len(parts) THEN 0
  ELSE parseInt10(parts[i]) * Pow2(OctetBits * (NumOctets - i))
       + SumOctets(parts, i + 1)

ipv4ToNumber(addr) == SumOctets(addr.left, 1)

\* numberToIPv4: (num >>> shift) & 255 per octet; >>> reduces num modulo 2^width
numberToIPv4(num) ==
  IPv4Text([i \in 1..NumOctets |->
    toString10(((num % Pow2(V4Width)) \div Pow2(OctetBits * (NumOctets - i)))
               % Pow2(OctetBits))])

\* A CIDR string `${address}/${prefix}`
CIDRString(address, prefix) == [address |-> address, prefix |-> prefix]

\* ------------------------------------------------------- expandIPv4Range
\* The loop with the `maxBits++` before the break forgotten.
RECURSIVE AlignLoopNoBackOff(_, _)
AlignLoopNoBackOff(cur, maxBits) ==
  IF maxBits > 0
  THEN IF cur % Pow2(V4Width - maxBits) # 0
       THEN maxBits
       ELSE AlignLoopNoBackOff(cur, maxBits - 1)
  ELSE maxBits

\* The loop as NORMALIZATION_PLAN.md drafts it: break when aligned, else
\* maxBits++; a block of one address is always aligned, so it stops at once.
RECURSIVE AlignLoopDraft(_, _)
AlignLoopDraft(cur, maxBits) ==
  IF maxBits > 0 /\ maxBits <= V4Width
  THEN IF cur % Pow2(V4Width - maxBits) = 0
       THEN maxBits
       ELSE AlignLoopDraft(cur, maxBits + 1)
  ELSE maxBits

\* First inner loop: walk maxBits down while current stays aligned.
RECURSIVE AlignLoop(_, _)
AlignLoop(cur, maxBits) ==
  IF maxBits > 0
  THEN IF cur % Pow2(V4Width - maxBits) # 0
       THEN maxBits + 1
       ELSE AlignLoop(cur, maxBits - 1)
  ELSE maxBits

\* The loop followed by `if (maxBits < 1) maxBits = 1`
AlignedBits(cur) ==
  LET m == AlignLoop(cur, V4Width) IN IF m < 1 THEN 1 ELSE m

\* Second inner loop: shrink the block until it does not exceed end.
RECURSIVE FitLoop(_, _, _)
FitLoop(cur, maxBits, e) ==
  IF maxBits < V4Width
  THEN IF cur + Pow2(V4Width - maxBits) - 1 <= e
       THEN maxBits
       ELSE FitLoop(cur, maxBits + 1, e)
  ELSE maxBits

\* The prefix length of the block one iteration of the outer loop emits.
BlockBits(cur, e) == FitLoop(cur, AlignedBits(cur), e)

\* The whole function: the outer while loop run to its end.
RECURSIVE ExpandFrom(_, _, _, _)
ExpandFrom(s, cur, e, acc) ==
  IF cur <= e
  THEN LET bits == BlockBits(cur, e)
           next == cur + Pow2(V4Width - bits)
           out  == Append(acc, CIDRString(numberToIPv4(cur), bits))
       IN IF next < s THEN out ELSE ExpandFrom(s, next, e, out)
  ELSE acc

expandIPv4Range(s, e) == IF s > e THEN <<>> ELSE ExpandFrom(s, s, e, <<>>)

\* ------------------------------------------- expandIPv4Range, step by step
\* The variables of the operations that are not under way
IdleSplit == start = 0 /\ end = 0 /\ current = 0 /\ cidrs = <<>>
IdleBlock == cidrString = None /\ block = None /\ range = None /\ rendered = None
IdleNorm == entry = None /\ result = None
IdleAgg ==
  /\ input = <<>> /\ sortedInput = None /\ aggregatedOutput = None
  /\ aggregated = None /\ reaggregated = None /\ sortedCIDRs = None
  /\ currentFormat = None /\ transformed = None
IdleCodec ==
  /\ addrText = None /\ parsed = None /\ expandedText = None
  /\ compressedText = None /\ recompressedText = None
IdleInput == inputText = None /\ results = None
IdleModal == clock = 0 /\ modal = 0 /\ calls = <<>>

InitSplit ==
  /\ pc = "call"
  /\ start \in 0..MaxAddr4
  /\ end \in 0..MaxAddr4
  /\ current = 0
  /\ cidrs = <<>>
  /\ IdleBlock /\ IdleNorm /\ IdleAgg /\ IdleCodec /\ IdleInput /\ IdleModal

\* if (start > end) return []; else current = start
ExpandEnter ==
  /\ pc = "call"
  /\ pc' = IF start > end THEN "done" ELSE "loop"
  /\ current' = start
  /\ UNCHANGED <<start, end, cidrs, blockVars, normVars, aggVars, codecVars, inputVars,
                 modalVars>>

\* One iteration of while (current <= end)
ExpandIter ==
  /\ pc = "loop"
  /\ current <= end
  /\ LET bits == BlockBits(current, end)
         next == current + Pow2(V4Width - bits)
     IN /\ cidrs' = Append(cidrs, CIDRString(numberToIPv4(current), bits))
        /\ current' = next
        /\ pc' = IF next < start THEN "done" ELSE "loop"
  /\ UNCHANGED <<start, end, blockVars, normVars, aggVars, codecVars, inputVars,
                 modalVars>>

\* The loop condition fails: return cidrs
ExpandReturn ==
  /\ pc = "loop"
  /\ current > end
  /\ pc' = "done"
  /\ UNCHANGED <<splitVars, blockVars, normVars, aggVars, codecVars, inputVars,
                 modalVars>>

NextSplit == ExpandEnter \/ ExpandIter \/ ExpandReturn

SpecSplit == InitSplit /\ [][NextSplit]_vars

\* --------------------------------------------- what an IPv4 CIDR covers
\* The size of a block of the given prefix length
BlockSize4(prefix) == Pow2(V4Width - prefix)

\* The first and the last address an IPv4 CIDR string denotes: those that
\* share its prefix bits
First4(c) ==
  (ipv4ToNumber(c.address) \div BlockSize4(c.prefix)) * BlockSize4(c.prefix)

Last4(c) == First4(c) + BlockSize4(c.prefix) - 1

\* The addresses it denotes
Covered4(c) == First4(c)..Last4(c)

\* No bit set below the prefix length
Aligned4(c) == ipv4ToNumber(c.address) % BlockSize4(c.prefix) = 0

CoveredBy4(cs) == UNION {Covered4(cs[i]) : i \in 1..Len(cs)}

\* The aligned blocks <<address, prefix>> lying inside [s, e]
BlocksInside(s, e) ==
  {b \in (s..e) \X (0..V4Width) :
     /\ b[1] % BlockSize4(b[2]) = 0
     /\ b[1] + BlockSize4(b[2]) - 1 <= e}

PairAddrs(b) == b[1]..(b[1] + BlockSize4(b[2]) - 1)

\* Those contained in no other block inside [s, e].  A cover of [s, e] by k
\* blocks gives one by at most k of these: replace each block by the
\* maximal block containing it.
MaximalInside(s, e) ==
  {b \in BlocksInside(s, e) :
     \A o \in BlocksInside(s, e) : PairAddrs(b) \subseteq PairAddrs(o) => o = b}

\* C1: when expandIPv4Range(start, end) returns for start <= end, every
\* block is network-aligned, the blocks cover exactly [start, end], and no
\* two blocks overlap.
C1_SplitExact ==
  (pc = "done" /\ start <= end) =>
    /\ \A i \in 1..Len(cidrs) :
         /\ cidrs[i].prefix \in 0..V4Width
         /\ Aligned4(cidrs[i])
    /\ CoveredBy4(cidrs) = start..end
    /\ \A i, j \in 1..Len(cidrs) :
         i < j => \/ Last4(cidrs[i]) < First4(cidrs[j])
                  \/ Last4(cidrs[j]) < First4(cidrs[i])
    /\ cidrs = expandIPv4Range(start, end)

C1_Witness ==
  /\ pc = "done"
  /\ start < end
  /\ Len(cidrs) >= 3
  /\ \E i, j \in 1..Len(cidrs) : cidrs[i].prefix # cidrs[j].prefix

\* C2: the list expandIPv4Range returns is minimal: no smaller set of CIDR
\* blocks has a union equal to exactly [start, end].
C2_SplitMinimal ==
  (pc = "done" /\ start <= end) =>
    ~ \E S \in SUBSET MaximalInside(start, end) :
        /\ Cardinality(S) < Len(cidrs)
        /\ UNION {PairAddrs(b) : b \in S} = start..end

\* C3 as stated: at most one block per bit position, V4Width blocks in all.
C3_AtMostWidthBlocks == Len(cidrs) <= V4Width

\* C3 as amended: every iteration emits a block and moves current past it,
\* and at most two blocks per prefix length below the width are emitted,
\* 2 * (V4Width - 1) in all: the loop ends within that many iterations.
C3_BlockCountBounded ==
  /\ Len(cidrs) <= 2 * (V4Width - 1)
  /\ pc = "loop" => current >= start + Len(cidrs)

C3_Witness ==
  /\ pc = "done"
  /\ start = 1
  /\ end = MaxAddr4 - 1
  /\ Len(cidrs) = 2 * (V4Width - 1)


\* ------------------------------------------------------------- hex text
\* parseInt(g, 16) of a text of hex digits
RECURSIVE parseInt16(_)
parseInt16(ds) ==
  IF Len(ds) = 0 THEN 0
  ELSE 16 * parseInt16(SubSeq(ds, 1, Len(ds) - 1)) + ds[Len(ds)]

\* val.toString(16)
RECURSIVE toString16(_)
toString16(n) ==
  IF n < 16 THEN <<n>> ELSE Append(toString16(n \div 16), n % 16)

\* text.padStart(4, "0")
padStart4(ds) ==
  IF Len(ds) >= 4 THEN ds ELSE [i \in 1..(4 - Len(ds)) |-> 0] \o ds

\* An IPv6 address text without "::"
IPv6Text(groups) == AddrText(":", groups, FALSE, <<>>)

\* What a parser returns for a text it rejects
Null == <<>>

\* for (i < missing) groups.push("0")
ZeroGroups(n) == [i \in 1..n |-> <<0>>]

\* parseInt(groups[i] || "0", 16) for the first 8 groups
GroupVals(groups) ==
  <<>> \o [i \in 1..NumGroups |->
            IF i <= Len(groups) THEN parseInt16(groups[i]) ELSE 0]

\* No group among the first 8 is above 0xffff
GroupsInRange(groups) ==
  \A i \in 1..NumGroups : i <= Len(groups) => parseInt16(groups[i]) <= MaxGroup

\* A text with a second "::": the parts of addr.split("::") are left, right
\* and rest
AddrText3(left, right, rest) ==
  [sep |-> ":", left |-> <<>> \o left, dc |-> TRUE, right |-> <<>> \o right,
   rest |-> <<>> \o rest]

\* parts.length > 2
MoreParts(addr) == "rest" \in DOMAIN addr

\* parseInt("", 16) is NaN: a group without digits, where no `|| "0"` stands in
SomeNaN(groups) == \E i \in 1..Len(groups) : groups[i] = <<>>

\* app.js parseIPv6: the 8 group values (the 16 bytes, pairwise), or null
parseIPv6(addr) ==
  IF addr.sep # ":" THEN Null
  ELSE IF MoreParts(addr) THEN Null
  ELSE IF addr.dc
  THEN LET missing == NumGroups - Len(addr.left) - Len(addr.right)
           groups  == addr.left \o ZeroGroups(missing) \o addr.right
       IN IF GroupsInRange(groups) THEN GroupVals(groups) ELSE Null
  ELSE IF Len(addr.left) # NumGroups THEN Null
  ELSE IF SomeNaN(addr.left) THEN Null
  ELSE IF GroupsInRange(addr.left) THEN GroupVals(addr.left) ELSE Null

\* expandIPv6 with the padStart(4, "0") forgotten
expandIPv6Bare(address) ==
  LET bytes == parseIPv6(address)
  IN IF bytes = Null THEN address
     ELSE IPv6Text([i \in 1..NumGroups |-> toString16(bytes[i])])

\* app.js expandIPv6: 8 groups of 4 hex digits, or the text unchanged
expandIPv6(address) ==
  LET bytes == parseIPv6(address)
  IN IF bytes = Null THEN address
     ELSE IPv6Text([i \in 1..NumGroups |-> padStart4(toString16(bytes[i]))])

\* The scan with `>=` for `>`: a later run of the same length replaces the best.
RECURSIVE ZeroRunScanLast(_, _, _)
ZeroRunScanLast(groups, i, st) ==
  IF i > Len(groups) THEN st
  ELSE IF groups[i] = <<0>>
  THEN ZeroRunScanLast(groups, i + 1,
         IF st.currentStart = -1
         THEN [st EXCEPT !.currentStart = i, !.currentLength = 1]
         ELSE [st EXCEPT !.currentLength = @ + 1])
  ELSE ZeroRunScanLast(groups, i + 1,
         LET t == IF st.currentLength >= st.bestLength /\ st.currentLength > 1
                  THEN [st EXCEPT !.bestStart = st.currentStart,
                                  !.bestLength = st.currentLength]
                  ELSE st
         IN [t EXCEPT !.currentStart = -1, !.currentLength = 0])

\* The scan for the longest run of "0" groups; positions count from 1.
RECURSIVE ZeroRunScan(_, _, _)
ZeroRunScan(groups, i, st) ==
  IF i > Len(groups) THEN st
  ELSE IF groups[i] = <<0>>
  THEN ZeroRunScan(groups, i + 1,
         IF st.currentStart = -1
         THEN [st EXCEPT !.currentStart = i, !.currentLength = 1]
         ELSE [st EXCEPT !.currentLength = @ + 1])
  ELSE ZeroRunScan(groups, i + 1,
         LET t == IF st.currentLength > st.bestLength /\ st.currentLength > 1
                  THEN [st EXCEPT !.bestStart = st.currentStart,
                                  !.bestLength = st.currentLength]
                  ELSE st
         IN [t EXCEPT !.currentStart = -1, !.currentLength = 0])

\* The scan and the check of the run that reaches the last group
BestZeroRun(groups) ==
  LET st == ZeroRunScan(groups, 1,
              [bestStart |-> -1, bestLength |-> 0,
               currentStart |-> -1, currentLength |-> 0])
  IN IF st.currentLength > st.bestLength /\ st.currentLength > 1
     THEN [bestStart |-> st.currentStart, bestLength |-> st.currentLength]
     ELSE [bestStart |-> st.bestStart, bestLength |-> st.bestLength]

\* The text built from the groups and the best run: join(":") of the groups
\* with "" in place of the run, repaired to a leading or trailing "::".
CompressGroups(groups) ==
  LET best == BestZeroRun(groups)
  IN IF best.bestLength > 1
     THEN IF best.bestLength = Len(groups)
          THEN AddrText(":", <<>>, TRUE, <<>>)
          ELSE AddrText(":", SubSeq(groups, 1, best.bestStart - 1), TRUE,
                        SubSeq(groups, best.bestStart + best.bestLength, Len(groups)))
     ELSE IPv6Text(groups)

\* app.js compressIPv6
compressIPv6(address) ==
  LET bytes == parseIPv6(address)
  IN IF bytes = Null THEN address
     ELSE CompressGroups(<<>> \o [i \in 1..NumGroups |-> toString16(bytes[i])])

\* app.js ipv6ToNumber
RECURSIVE SumGroups(_, _)
SumGroups(vals, i) ==
  IF i > Len(vals) THEN 0
  ELSE vals[i] * Pow2(GroupBits * (NumGroups - i)) + SumGroups(vals, i + 1)

ipv6ToNumber(address) ==
  LET bytes == parseIPv6(address)
  IN IF bytes = Null THEN 0 ELSE SumGroups(bytes, 1)

\* app.js numberToIPv6: the low 16 bytes of bigNum as 8 groups
numberToIPv6(bigNum) ==
  IPv6Text([i \in 1..NumGroups |->
    toString16(((bigNum % Pow2(V6Width)) \div Pow2(GroupBits * (NumGroups - i)))
               % Pow2(GroupBits))])

\* --------------------------------------------------------------- CIDRBlock
IPv4 == "ipv4"
IPv6 == "ipv6"

normalizeAddress(address, version) ==
  IF version = IPv6 THEN expandIPv6(address) ELSE address

calculateStartAddress(cidrBlock) ==
  IF cidrBlock.version = IPv4
  THEN ipv4ToNumber(cidrBlock.address)
  ELSE ipv6ToNumber(cidrBlock.address)

\* The host count taken with a shift of the word size: 1 << width is 1
calculateEndAddressShift(cidrBlock) ==
  LET width == IF cidrBlock.version = IPv4 THEN V4Width ELSE V6Width
      hostBits == width - cidrBlock.prefix
  IN cidrBlock.startAddress + Pow2(hostBits % width) - 1

calculateEndAddress(cidrBlock) ==
  IF cidrBlock.version = IPv4
  THEN cidrBlock.startAddress + (Pow2(V4Width - cidrBlock.prefix) - 1)
  ELSE cidrBlock.startAddress + (Pow2(V6Width - cidrBlock.prefix) - 1)

\* new CIDRBlock(address, prefix, version)
CIDRBlock(address, prefix, version) ==
  LET b1 == [address |-> normalizeAddress(address, version),
             prefix |-> prefix,
             version |-> version,
             expandedAddress |->
               IF version = IPv6 THEN expandIPv6(address) ELSE address]
      b2 == [address |-> b1.address, prefix |-> prefix, version |-> version,
             expandedAddress |-> b1.expandedAddress,
             startAddress |-> calculateStartAddress(b1)]
  IN [address |-> b1.address, prefix |-> prefix, version |-> version,
      expandedAddress |-> b1.expandedAddress,
      startAddress |-> b2.startAddress,
      endAddress |-> calculateEndAddress(b2)]

\* CIDRBlock.fromCIDRString
fromCIDRString(c) ==
  CIDRBlock(c.address, c.prefix, IF c.address.sep = "." THEN IPv4 ELSE IPv6)

\* CIDRBlock.prototype.toCIDRString
toCIDRString(b) ==
  IF b.version = IPv6
  THEN CIDRString(compressIPv6(b.expandedAddress), b.prefix)
  ELSE CIDRString(b.address, b.prefix)

toStartAddress(b) ==
  IF b.version = IPv4
  THEN numberToIPv4(b.startAddress)
  ELSE compressIPv6(numberToIPv6(b.startAddress))

toEndAddress(b) ==
  IF b.version = IPv4
  THEN numberToIPv4(b.endAddress)
  ELSE compressIPv6(numberToIPv6(b.endAddress))

getRange(b) == <<toStartAddress(b), toEndAddress(b)>>

\* (~0 << (32 - prefix)) >>> 0: the shift count is taken modulo the width
Netmask(prefix) ==
  (MaxAddr4 * Pow2((V4Width - prefix) % V4Width)) % Pow2(V4Width)

\* toNetmask, for an IPv4 block
toNetmask(b) == numberToIPv4(Netmask(b.prefix))

\* toWildcard, for an IPv4 block: ~netmask >>> 0
toWildcard(b) == numberToIPv4(MaxAddr4 - Netmask(b.prefix))

\* ----------------------------------------------------------- reverse DNS
\* A line `${labels.join(".")}${suffix}`
Line(labels, suffix) == [labels |-> <<>> \o labels, suffix |-> suffix]

\* array.reverse()
Reverse(s) == [i \in 1..Len(s) |-> s[Len(s) + 1 - i]]

\* Math.ceil(n / d)
Ceil(n, d) == (n + d - 1) \div d

\* expanded.replace(/:/g, ""): the digits of the groups in a row
HexString(expanded) ==
  <<>> \o [k \in 1..(4 * Len(expanded.left)) |->
            expanded.left[((k - 1) \div 4) + 1][((k - 1) % 4) + 1]]

\* calculateIPv6ReverseDNS
calculateIPv6ReverseDNS(cidrBlock) ==
  LET address == toStartAddress(cidrBlock)
      expanded == expandIPv6(address)
      reversedHex == Reverse(HexString(expanded))
      numHexDigits == Ceil(cidrBlock.prefix, 4)
      reversedPrefix == SubSeq(reversedHex, 1, numHexDigits)
  IN IF reversedPrefix = <<>> THEN Line(<<>>, "ip6.arpa")
     ELSE Line([i \in 1..Len(reversedPrefix) |-> <<reversedPrefix[i]>>], ".ip6.arpa")

\* The line of ReverseDNSTransformer.format for one block, with the octets
\* left in their order
reverseDNSLineUnreversed(b) ==
  IF b.version = IPv4
  THEN Line(SubSeq(b.address.left, 1, Ceil(b.prefix, OctetBits)), ".in-addr.arpa")
  ELSE calculateIPv6ReverseDNS(b)

\* The line of ReverseDNSTransformer.format for one block; an octet has
\* OctetBits bits (8 in the program)
reverseDNSLine(b) ==
  IF b.version = IPv4
  THEN LET octets == b.address.left
           numOctets == Ceil(b.prefix, OctetBits)
           reversedOctets == Reverse(SubSeq(octets, 1, numOctets))
       IN Line(reversedOctets, ".in-addr.arpa")
  ELSE calculateIPv6ReverseDNS(b)

\* ReverseDNSTransformer.format: the lines, joined by "\n" in the program
ReverseDNSTransformer(cidrBlocks) ==
  <<>> \o [i \in 1..Len(cidrBlocks) |-> reverseDNSLine(cidrBlocks[i])]

\* ------------------------------------------------ CIDRBlock, step by step
\* The address texts given to the constructor: every IPv4 value, in
\* canonical and in zero-padded digits; the IPv6 values whose groups are 0
\* or all-ones, as 4-digit groups, as bare groups and compressed.
V4Values == [1..NumOctets -> 0..MaxOctet]
V6Values == [1..NumGroups -> {0, MaxGroup}]

V4Texts ==
  {IPv4Text([i \in 1..NumOctets |-> toString10(v[i])]) : v \in V4Values}
  \cup {IPv4Text([i \in 1..NumOctets |-> <<0>> \o toString10(v[i])]) : v \in V4Values}

V6Texts ==
  {IPv6Text([i \in 1..NumGroups |-> padStart4(toString16(v[i]))]) : v \in V6Values}
  \cup {IPv6Text([i \in 1..NumGroups |-> toString16(v[i])]) : v \in V6Values}
  \cup {CompressGroups([i \in 1..NumGroups |-> toString16(v[i])]) : v \in V6Values}

BlockInputs ==
  {CIDRString(a, p) : a \in V4Texts, p \in 0..V4Width}
  \cup {CIDRString(a, p) : a \in V6Texts, p \in 0..V6Width}

InitBlock ==
  /\ pc = "new"
  /\ cidrString \in BlockInputs
  /\ block = None
  /\ range = None
  /\ rendered = None
  /\ IdleSplit /\ IdleNorm /\ IdleAgg /\ IdleCodec /\ IdleInput /\ IdleModal

\* CIDRBlock.fromCIDRString(cidrString)
Construct ==
  /\ pc = "new"
  /\ block' = fromCIDRString(cidrString)
  /\ pc' = "built"
  /\ UNCHANGED <<cidrString, range, rendered, splitVars, normVars, aggVars, codecVars,
                 inputVars, modalVars>>

\* block.getRange()
GetRange ==
  /\ pc = "built"
  /\ range' = getRange(block)
  /\ pc' = "ranged"
  /\ UNCHANGED <<cidrString, block, rendered, splitVars, normVars, aggVars, codecVars,
                 inputVars, modalVars>>

\* new ReverseDNSTransformer().format([block])
ReverseDNS ==
  /\ pc = "built"
  /\ rendered' = ReverseDNSTransformer(<<block>>)
  /\ pc' = "rendered"
  /\ UNCHANGED <<cidrString, block, range, splitVars, normVars, aggVars, codecVars,
                 inputVars, modalVars>>

\* block.toNetmask() and block.toWildcard(), which throw for an IPv6 block
Masks ==
  /\ pc = "built"
  /\ rendered' = IF block.version = IPv6
                 THEN [threw |-> TRUE]
                 ELSE [threw |-> FALSE, netmask |-> toNetmask(block),
                       wildcard |-> toWildcard(block)]
  /\ pc' = "masked"
  /\ UNCHANGED <<cidrString, block, range, splitVars, normVars, aggVars, codecVars,
                 inputVars, modalVars>>

NextBlock == Construct \/ GetRange \/ ReverseDNS \/ Masks

SpecBlock == InitBlock /\ [][NextBlock]_vars

\* The width of a block's family
WidthOf(b) == IF b.version = IPv4 THEN V4Width ELSE V6Width

\* The value an address text denotes, read group by group
TextValue(a) ==
  IF a.sep = "."
  THEN SumOctets(a.left, 1)
  ELSE LET gap == NumGroups - Len(a.left) - Len(a.right)
           gs  == a.left \o [i \in 1..gap |-> <<0>>] \o a.right
       IN SumGroups([i \in 1..NumGroups |-> parseInt16(gs[i])], 1)

\* C8: a CIDRBlock built from a valid address and a prefix p in 0..width
\* starts at the value of its address, has startAddress <= endAddress, and
\* spans exactly 2^(width - p) addresses, at p = 0 and p = width too.
C8_BlockBounds ==
  pc \in {"built", "ranged"} =>
    /\ block.startAddress = TextValue(cidrString.address)
    /\ block.startAddress <= block.endAddress
    /\ (block.endAddress - block.startAddress + 1) * Pow2(block.prefix)
         = Pow2(WidthOf(block))

C8_Witness ==
  /\ pc = "built"
  /\ block.version = IPv6
  /\ block.prefix = 0
  /\ block.startAddress = 0
  /\ block.endAddress = MaxAddr6

\* The canonical text of an address: IPv4 octets without leading zeros; the
\* IPv6 groups without leading zeros, the longest run of zero groups as "::"
CanonicalAddress(a) ==
  IF a.sep = "."
  THEN IPv4Text([i \in 1..Len(a.left) |-> toString10(parseInt10(a.left[i]))])
  ELSE LET gap == NumGroups - Len(a.left) - Len(a.right)
           gs  == a.left \o [i \in 1..gap |-> <<0>>] \o a.right
       IN CompressGroups(<<>> \o [i \in 1..NumGroups |-> toString16(parseInt16(gs[i]))])

CanonicalCIDR(c) == CIDRString(CanonicalAddress(c.address), c.prefix)

\* C11: for a valid CIDR string, fromCIDRString(s).toCIDRString() is the
\* canonical form of s, and parsing and formatting that result once more
\* returns it unchanged.
C11_RoundTripCanonical ==
  pc \in {"built", "ranged"} =>
    /\ toCIDRString(block) = CanonicalCIDR(cidrString)
    /\ toCIDRString(fromCIDRString(toCIDRString(block))) = toCIDRString(block)

\* -------------------------------------------------------------- normalizer
\* An input entry, trimmed: an address text, an optional "%zone" after it,
\* and an optional tail: "/", " " or "-" followed by a number text (digits)
\* or by another address text.  NoText is the empty text; a word that is
\* no address has sep "word".
NoText == AddrText("", <<>>, FALSE, <<>>)
WordText == AddrText("word", <<>>, FALSE, <<>>)
NumArg(digits) == [isAddr |-> FALSE, num |-> digits, addr |-> NoText]
AddrArg(a) == [isAddr |-> TRUE, num |-> <<>>, addr |-> a]
NoArg == NumArg(<<>>)
Entry(addr, zone, tail, arg) ==
  [addr |-> addr, zone |-> zone, tail |-> tail, arg |-> arg]

NoCIDR == CIDRString(NoText, 0)

VALID == "valid"
CORRECTED == "corrected"
INVALID == "invalid"

\* createResult reading a key the callers do not set, `options.warnings`
createResultNoWarning(original, status, normalized, expandedTo, warning, error) ==
  [original |-> original, normalized |-> normalized, status |-> status,
   warning |-> "", error |-> error, expandedTo |-> expandedTo]

\* createResult(original, status, options); "" and <<>> stand for null
createResult(original, status, normalized, expandedTo, warning, error) ==
  [original |-> original, normalized |-> normalized, status |-> status,
   warning |-> warning, error |-> error, expandedTo |-> expandedTo]

\* What a parser returns for an entry it does not recognize
NoResult == createResult(Entry(NoText, FALSE, "", NoArg), "null", NoCIDR, <<>>, "", "")

\* isValidIPv4Address: four parts of 1 to 3 digits, each at most 255
isValidIPv4Address(a) ==
  /\ a.sep = "."
  /\ ~a.dc
  /\ Len(a.left) = NumOctets
  /\ \A i \in 1..Len(a.left) :
       /\ Len(a.left[i]) \in 1..3
       /\ parseInt10(a.left[i]) <= MaxOctet

\* normalizeIPv4Address: each part re-printed without leading zeros
normalizeIPv4Address(a) ==
  IPv4Text([i \in 1..Len(a.left) |-> toString10(parseInt10(a.left[i]))])

\* a & b on 32-bit operands (the operands are reduced modulo 2^width)
RECURSIVE BitAndBits(_, _, _)
BitAndBits(a, b, n) ==
  IF n = 0 THEN 0
  ELSE (a % 2) * (b % 2) + 2 * BitAndBits(a \div 2, b \div 2, n - 1)

BitAnd(a, b) == BitAndBits(a % Pow2(V4Width), b % Pow2(V4Width), V4Width)

\* while (n & 0x80000000) { prefix++; n = (n << 1) >>> 0 }
RECURSIVE LeadingOnes(_, _)
LeadingOnes(n, prefix) ==
  IF n \div Pow2(V4Width - 1) = 1
  THEN LeadingOnes((2 * n) % Pow2(V4Width), prefix + 1)
  ELSE [n |-> n, prefix |-> prefix]

\* subnetMaskToCIDRPrefix with both checks of the zero bits forgotten
subnetMaskLeadingOnes(mask) ==
  IF mask.sep # "." \/ Len(mask.left) # NumOctets THEN -1
  ELSE IF \E i \in 1..NumOctets :
            mask.left[i] = <<>> \/ parseInt10(mask.left[i]) > MaxOctet THEN -1
  ELSE LeadingOnes(SumOctets(mask.left, 1), 0).prefix

\* subnetMaskToCIDRPrefix: the prefix length, or -1 for null; parseInt of a
\* part without digits is NaN
subnetMaskToCIDRPrefix(mask) ==
  IF mask.sep # "." \/ Len(mask.left) # NumOctets THEN -1
  ELSE IF \E i \in 1..NumOctets :
            mask.left[i] = <<>> \/ parseInt10(mask.left[i]) > MaxOctet THEN -1
  ELSE LET num == SumOctets(mask.left, 1)
           inverted == MaxAddr4 - num
       IN IF inverted # 0 /\ BitAnd(inverted, inverted + 1) # 0 THEN -1
          ELSE LET r == LeadingOnes(num, 0)
               IN IF r.n # 0 THEN -1 ELSE r.prefix

\* parseIPv4Range: full form a.b.c.d-e.f.g.h and short form a.b.c.d-N
parseIPv4Range(e) ==
  IF e.tail = "-" /\ ~e.zone /\ e.addr.sep = "."
     /\ (e.arg.isAddr => e.arg.addr.sep = ".")
  THEN IF e.arg.isAddr /\ isValidIPv4Address(e.addr)
          /\ isValidIPv4Address(e.arg.addr)
       THEN LET s == ipv4ToNumber(normalizeIPv4Address(e.addr))
                t == ipv4ToNumber(normalizeIPv4Address(e.arg.addr))
            IN IF s > t
               THEN createResult(e, INVALID, NoCIDR, <<>>, "",
                                 "Range start is greater than end")
               ELSE LET cs == expandIPv4Range(s, t)
                    IN createResult(e, CORRECTED, cs[1], cs,
                                    "Expanded range to CIDR block(s)", "")
       ELSE IF ~e.arg.isAddr /\ isValidIPv4Address(e.addr)
       THEN LET normalized == normalizeIPv4Address(e.addr)
                endNum == parseInt10(e.arg.num)
            IN IF endNum > MaxOctet
               THEN createResult(e, INVALID, NoCIDR, <<>>, "",
                                 "Invalid end octet in range")
               ELSE LET endAddr == IPv4Text([normalized.left EXCEPT
                                       ![NumOctets] = toString10(endNum)])
                        s == ipv4ToNumber(normalized)
                        t == ipv4ToNumber(endAddr)
                    IN IF s > t
                       THEN createResult(e, INVALID, NoCIDR, <<>>, "",
                                         "Range start is greater than end")
                       ELSE LET cs == expandIPv4Range(s, t)
                            IN createResult(e, CORRECTED, cs[1], cs,
                                            "Expanded range to CIDR block(s)", "")
       ELSE NoResult
  ELSE NoResult

\* parseIPv4Entry: the patterns in the order the code tries them
parseIPv4Entry(e) ==
  LET dotted == e.addr.sep = "." /\ ~e.zone
      slashMaskMatch == dotted /\ e.tail = "/" /\ e.arg.isAddr /\ e.arg.addr.sep = "."
      cidrMatch == dotted /\ e.tail = "/" /\ ~e.arg.isAddr
      spaceMaskMatch == dotted /\ e.tail = " "
                        /\ (e.arg.isAddr => e.arg.addr.sep = ".")
      mask == IF e.arg.isAddr THEN e.arg.addr ELSE IPv4Text(<<e.arg.num>>)
      maskPrefix == subnetMaskToCIDRPrefix(mask)
      prefixNum == parseInt10(e.arg.num)
      normalized == normalizeIPv4Address(e.addr)
  IN IF slashMaskMatch /\ isValidIPv4Address(e.addr) /\ maskPrefix # -1
     THEN createResult(e, CORRECTED, CIDRString(normalized, maskPrefix),
                       <<CIDRString(normalized, maskPrefix)>>,
                       "Converted mask to prefix", "")
     ELSE IF cidrMatch /\ isValidIPv4Address(e.addr) /\ prefixNum <= V4Width
     THEN createResult(e, IF normalized # e.addr THEN CORRECTED ELSE VALID,
                       CIDRString(normalized, prefixNum),
                       <<CIDRString(normalized, prefixNum)>>,
                       IF normalized # e.addr THEN "Normalized address" ELSE "", "")
     ELSE IF spaceMaskMatch /\ isValidIPv4Address(e.addr) /\ maskPrefix # -1
     THEN createResult(e, CORRECTED, CIDRString(normalized, maskPrefix),
                       <<CIDRString(normalized, maskPrefix)>>,
                       "Converted to CIDR notation", "")
     ELSE IF e.tail = "" /\ ~e.zone /\ isValidIPv4Address(e.addr)
     THEN createResult(e, IF normalized # e.addr THEN CORRECTED ELSE VALID,
                       CIDRString(normalized, V4Width),
                       <<CIDRString(normalized, V4Width)>>,
                       IF normalized # e.addr THEN "Normalized address" ELSE "", "")
     ELSE parseIPv4Range(e)

\* normalizer.js parseIPv6ToBytes: as parseIPv6, and null when the groups
\* around "::" leave no room (missing < 0)
parseIPv6ToBytes(addr) ==
  IF addr.sep # ":" THEN Null
  ELSE IF MoreParts(addr) THEN Null
  ELSE IF addr.dc
  THEN LET missing == NumGroups - Len(addr.left) - Len(addr.right)
           groups  == addr.left \o ZeroGroups(missing) \o addr.right
       IN IF missing < 0 THEN Null
          ELSE IF GroupsInRange(groups) THEN GroupVals(groups) ELSE Null
  ELSE IF Len(addr.left) # NumGroups THEN Null
  ELSE IF SomeNaN(addr.left) THEN Null
  ELSE IF GroupsInRange(addr.left) THEN GroupVals(addr.left) ELSE Null

\* normalizer.js expandIPv6: NoText stands for null
normExpandIPv6(addr) ==
  LET bytes == parseIPv6ToBytes(addr)
  IN IF bytes = Null THEN NoText
     ELSE IPv6Text([i \in 1..NumGroups |-> padStart4(toString16(bytes[i]))])

\* normalizer.js compressIPv6: left.join(":") + "::" + right.join(":")
normCompressIPv6(addr) ==
  LET bytes == parseIPv6ToBytes(addr)
  IN IF bytes = Null THEN NoText
     ELSE LET groups == <<>> \o [i \in 1..NumGroups |-> toString16(bytes[i])]
              best == BestZeroRun(groups)
          IN IF best.bestLength > 1
             THEN IF best.bestLength = NumGroups
                  THEN AddrText(":", <<>>, TRUE, <<>>)
                  ELSE AddrText(":", SubSeq(groups, 1, best.bestStart - 1), TRUE,
                         SubSeq(groups, best.bestStart + best.bestLength, Len(groups)))
             ELSE IPv6Text(groups)

\* stripIPv6ZoneId: the zone goes, and with it all that follows unless it
\* is a "/" tail
stripIPv6ZoneId(e) ==
  IF ~e.zone THEN e
  ELSE IF e.tail = "/" THEN Entry(e.addr, FALSE, e.tail, e.arg)
  ELSE Entry(e.addr, FALSE, "", NoArg)

\* parseIPv6Range
parseIPv6Range(e) ==
  createResult(e, INVALID, NoCIDR, <<>>, "", "IPv6 ranges not yet supported")

\* A text as parseIPv6ToBytes splits it at its colons: an IPv6 text is its
\* groups; of any other text parseInt(piece, 16) reads the hex digits it
\* starts with, the first part of a dotted text or a number, and of a word
\* none (NaN), which fails `isNaN(val) || val > 0xffff` as a group above the
\* maximum does
Pieces(a, num) ==
  IF a.sep = ":" THEN a
  ELSE IF a.sep = "." THEN AddrText(":", <<a.left[1]>>, FALSE, <<>>)
  ELSE IF a.sep = "" THEN AddrText(":", <<num>>, FALSE, <<>>)
  ELSE AddrText(":", <<toString16(MaxGroup + 1)>>, FALSE, <<>>)

\* The whole entry, address, tail and argument, split at its colons: the
\* piece that holds the tail is read up to the tail, so the last piece of
\* the address swallows the first piece of the argument; after a closing
\* "::" the piece starts with the tail, and parseInt skips white space only
WholeText(e) ==
  IF e.tail = "" THEN Pieces(e.addr, <<>>)
  ELSE LET A == Pieces(e.addr, <<>>)
           B == Pieces(e.arg.addr, e.arg.num)
           rest == SubSeq(B.left, 2, Len(B.left))
       IN IF A.dc /\ B.dc THEN NoText
          ELSE IF A.dc
          THEN IF A.right = <<>>
               THEN IF e.tail = " " THEN AddrText(":", A.left, TRUE, B.left) ELSE NoText
               ELSE AddrText(":", A.left, TRUE, A.right \o rest)
          ELSE AddrText(":", A.left \o rest, B.dc, B.right)

\* parseIPv6Entry, for an entry that has a colon
parseIPv6Entry(e) ==
  LET trimmed == stripIPv6ZoneId(e)
      zoneWarning == IF e.zone THEN "Removed zone ID" ELSE ""
      prefixNum == parseInt10(trimmed.arg.num)
      cidrMatch == trimmed.tail = "/" /\ ~trimmed.arg.isAddr /\ trimmed.addr.sep = ":"
      expanded == normExpandIPv6(IF cidrMatch THEN trimmed.addr ELSE WholeText(trimmed))
      compressed == normCompressIPv6(expanded)
  IN IF trimmed.tail = "-" THEN parseIPv6Range(e)
     ELSE IF cidrMatch
     THEN IF prefixNum > V6Width
          THEN createResult(e, INVALID, NoCIDR, <<>>, "", "Invalid IPv6 prefix")
          ELSE IF expanded = NoText
          THEN createResult(e, INVALID, NoCIDR, <<>>, "", "Invalid IPv6 address format")
          ELSE createResult(e, IF e.zone THEN CORRECTED ELSE VALID,
                            CIDRString(compressed, prefixNum),
                            <<CIDRString(compressed, prefixNum)>>, zoneWarning, "")
     ELSE IF expanded # NoText
     THEN createResult(e, IF e.zone THEN CORRECTED ELSE VALID,
                       CIDRString(compressed, V6Width),
                       <<CIDRString(compressed, V6Width)>>, zoneWarning, "")
     ELSE NoResult

\* normalizeEntry: IPv6 first when the entry has a colon, then IPv4
normalizeEntry(e) ==
  LET hasColon == e.addr.sep = ":" \/ (e.arg.isAddr /\ e.arg.addr.sep = ":")
      ipv6Result == IF hasColon THEN parseIPv6Entry(e) ELSE NoResult
      ipv4Result == parseIPv4Entry(e)
  IN IF e.addr = NoText /\ e.tail = "" /\ ~e.zone
     THEN createResult(e, INVALID, NoCIDR, <<>>, "", "Empty entry")
     ELSE IF ipv6Result # NoResult THEN ipv6Result
     ELSE IF ipv4Result # NoResult THEN ipv4Result
     ELSE createResult(e, INVALID, NoCIDR, <<>>, "", "Unrecognized IP address format")

\* ------------------------------------------------ normalizer, step by step
V4Canon == {IPv4Text([i \in 1..NumOctets |-> toString10(v[i])]) : v \in V4Values}
V6Canon == {CompressGroups([i \in 1..NumGroups |-> toString16(v[i])]) : v \in V6Values}

\* Texts the normalizer rejects: an octet (a group) above the maximum, three
\* octets, seven groups, and nine groups around a "::"
V4Bad ==
  {IPv4Text([i \in 1..NumOctets |-> toString10(MaxOctet + 1)]),
   IPv4Text([i \in 1..(NumOctets - 1) |-> <<0>>])}
V6Bad ==
  {IPv6Text([i \in 1..NumGroups |-> toString16(MaxGroup + 1)]),
   IPv6Text([i \in 1..(NumGroups - 1) |-> <<0>>]),
   AddrText(":", [i \in 1..NumGroups |-> <<0>>], TRUE, << <<0>> >>)}

\* A few IPv4 addresses: the lowest two, the highest two, the middle
V4Few == {numberToIPv4(n) : n \in {0, 1, Pow2(V4Width - 1), MaxAddr4 - 1, MaxAddr4}}

\* A few IPv6 addresses: the lowest two, one that ends in "::", the highest
V6Few ==
  {CompressGroups([i \in 1..NumGroups |-> toString16(v[i])]) :
     v \in {[i \in 1..NumGroups |-> 0],
            [i \in 1..NumGroups |-> IF i = NumGroups THEN 1 ELSE 0],
            [i \in 1..NumGroups |-> IF i = 1 THEN 1 ELSE 0],
            [i \in 1..NumGroups |-> MaxGroup]}}

\* Range ends tried for a range start
RangeEnds(s) == {s, s + 1, s + 3, MaxAddr4, 0} \cap (0..MaxAddr4)

Entries ==
  \* bare addresses, a word, the empty entry
  << {Entry(a, FALSE, "", NoArg) : a \in V4Texts \cup V4Bad \cup V6Texts \cup V6Bad
                                      \cup {WordText, NoText}}
  \* address/prefix, the prefix up to one above the width, or zero-padded
  , {Entry(a, FALSE, "/", NumArg(toString10(p))) :
          a \in V4Canon \cup V4Bad, p \in 0..(V4Width + 1)}
  , {Entry(a, FALSE, "/", NumArg(<<0>> \o toString10(p))) :
          a \in V4Few, p \in 0..V4Width}
  , {Entry(a, FALSE, "/", NumArg(toString10(V4Width))) : a \in V4Texts}
  \* address/mask and address mask, every mask text
  , {Entry(a, FALSE, t, AddrArg(m)) :
          a \in V4Few \cup V4Bad, t \in {"/", " "}, m \in V4Canon \cup V4Bad}
  \* ranges, full and short
  , UNION {{Entry(numberToIPv4(s), FALSE, "-", AddrArg(numberToIPv4(t))) :
                 t \in RangeEnds(s)} : s \in 0..MaxAddr4}
  , {Entry(a, FALSE, "-", NumArg(toString10(n))) :
          a \in V4Few \cup V4Bad, n \in 0..(MaxOctet + 1)}
  \* IPv6 address/prefix, with and without a zone; zoned and range entries
  , {Entry(a, z, "/", NumArg(toString10(p))) :
          a \in V6Canon \cup V6Bad, z \in BOOLEAN, p \in 0..(V6Width + 1)}
  , {Entry(a, TRUE, "", NoArg) : a \in V6Canon \cup V4Few}
  , {Entry(a, FALSE, "-", AddrArg(a)) : a \in V6Canon}
  \* IPv6 in full or bare groups with a prefix
  , {Entry(a, FALSE, "/", NumArg(toString10(V6Width))) : a \in V6Texts}
  \* two texts on either side of a space or a slash, one of them IPv6
  , {Entry(a, z, t, AddrArg(b)) :
          a \in V6Few \cup V4Few, z \in BOOLEAN, t \in {" ", "/"},
          b \in V6Few \cup V4Few \cup {WordText}} >>

InitNorm ==
  /\ pc = "entry"
  /\ \E k \in 1..Len(Entries) : entry \in Entries[k]
  /\ result = None
  /\ IdleSplit /\ IdleBlock /\ IdleAgg /\ IdleCodec /\ IdleInput /\ IdleModal

\* result = normalizeEntry(entry)
Normalize ==
  /\ pc = "entry"
  /\ result' = normalizeEntry(entry)
  /\ pc' = "normalized"
  /\ UNCHANGED <<entry, splitVars, blockVars, aggVars, codecVars, inputVars,
                 modalVars>>

\* extractValidCIDRs and cidrStrings.map: one of the CIDR strings of a
\* result that is not invalid goes to CIDRBlock.fromCIDRString
Extract ==
  /\ pc = "normalized"
  /\ result.status # INVALID
  /\ \E i \in 1..Len(result.expandedTo) : cidrString' = result.expandedTo[i]
  /\ pc' = "new"
  /\ UNCHANGED <<block, range, rendered, splitVars, normVars, aggVars, codecVars,
                 inputVars, modalVars>>

NextNorm == Normalize \/ Extract \/ Construct \/ GetRange

SpecNorm == InitNorm /\ [][NextNorm]_vars

\* The width of the family of a CIDR string
WidthOfCIDR(c) == IF c.address.sep = "." THEN V4Width ELSE V6Width

\* No bit of the address is set below the prefix length
AlignedCIDR(c) == TextValue(c.address) % Pow2(WidthOfCIDR(c) - c.prefix) = 0

\* The number n is an address of the block the CIDR string denotes
InCIDR(n, c) ==
  LET size == Pow2(WidthOfCIDR(c) - c.prefix)
  IN /\ n \in 0..(Pow2(WidthOfCIDR(c)) - 1)
     /\ n \div size = TextValue(c.address) \div size

\* C9: a CIDRBlock built from a CIDR string of a valid or corrected result
\* has 0 <= startAddress <= endAddress <= 2^width - 1, and toEndAddress()
\* renders an address of the block.
C9_BlockFitsWidth ==
  /\ pc \in {"built", "ranged"} =>
       /\ 0 <= block.startAddress
       /\ block.startAddress <= block.endAddress
       /\ block.endAddress <= Pow2(WidthOf(block)) - 1
  /\ pc = "ranged" =>
       /\ InCIDR(block.endAddress, cidrString)
       /\ TextValue(range[2]) = block.endAddress

\* C10: every CIDR string of a valid or corrected result, normalized and
\* each element of expandedTo, is network-aligned.
C10_EmitsAligned ==
  (pc # "entry" /\ result.status \in {VALID, CORRECTED}) =>
    /\ AlignedCIDR(result.normalized)
    /\ \A i \in 1..Len(result.expandedTo) : AlignedCIDR(result.expandedTo[i])

\* The trimmed entry is, character for character, the CIDR string c
SameText(e, c) ==
  /\ e.tail = "/" /\ ~e.zone /\ ~e.arg.isAddr
  /\ e.addr = c.address
  /\ e.arg.num = toString10(c.prefix)

\* C12: the status of a result is valid exactly when its normalized string
\* is the trimmed entry character for character; a result whose normalized
\* string differs from the entry is corrected, never valid.
C12_ValidIffUnchanged ==
  pc # "entry" => (result.status = VALID <=> SameText(entry, result.normalized))

parseEntry(e) ==
  LET r == normalizeEntry(e) IN IF r.status # INVALID THEN r ELSE NoResult

\* parseSpaceDelimited: entry.split(/\s+/), each token normalized
parseSpaceDelimited(tokens, lineNumber) ==
  <<>> \o [i \in 1..Len(tokens) |->
            normalizeEntry(tokens[i]) @@ [lineNumber |-> lineNumber]]

\* The loops of normalizeInput from token i on: the entry is the tokens up
\* to the next "," or "\n"; it is normalized whole, and token by token when
\* that gives an invalid result
RECURSIVE NormalizeFrom(_, _, _)
NormalizeFrom(text, i, lineNumber) ==
  IF i > Len(text.tokens) THEN <<>>
  ELSE LET spaced == i < Len(text.tokens) /\ text.seps[i] = " "
           last == IF spaced THEN i + 1 ELSE i
           tokens == SubSeq(text.tokens, i, last)
           trimmed == IF spaced
                      THEN Entry(tokens[1].addr, tokens[1].zone, " ",
                                 AddrArg(tokens[2].addr))
                      ELSE tokens[1]
           normalized == parseEntry(trimmed)
           nextLine == IF last < Len(text.tokens) /\ text.seps[last] = "\n"
                       THEN lineNumber + 1 ELSE lineNumber
       IN (IF normalized # NoResult
           THEN <<normalized @@ [lineNumber |-> lineNumber]>>
           ELSE parseSpaceDelimited(tokens, lineNumber))
          \o NormalizeFrom(text, last + 1, nextLine)

normalizeInput(text) ==
  IF Len(text.tokens) = 0 THEN <<>> ELSE NormalizeFrom(text, 1, 1)

\* ---------------------------------------------- normalizeInput, step by step
\* The most tokens in an input text
MaxTokens == 3

\* The tokens given: two IPv4 addresses, the second of them a subnet mask
\* too, an IPv6 address, bare and with a zone, a number and a word
InputTokens ==
  {Entry(a, FALSE, "", NoArg) :
     a \in {numberToIPv4(1), numberToIPv4(MaxAddr4),
            CompressGroups([i \in 1..NumGroups |->
                              IF i = NumGroups THEN <<1>> ELSE <<0>>]),
            IPv4Text(<< <<1>> >>), WordText}}
  \cup {Entry(CompressGroups([i \in 1..NumGroups |->
                                IF i = NumGroups THEN <<1>> ELSE <<0>>]),
              TRUE, "", NoArg)}

\* The texts given with n tokens: at most two tokens between commas and
\* line ends, the second of them without a zone
InputTexts(n) ==
  {[tokens |-> ts, seps |-> ss] :
     ts \in [1..n -> InputTokens],
     ss \in {s \in [1..(n - 1) -> {" ", ",", "\n"}] :
               \A i \in 1..(n - 1) :
                 s[i] = " " => (i > 1 => s[i - 1] # " ")}}

InitInput ==
  /\ pc = "text"
  /\ \E n \in 0..MaxTokens :
       inputText \in {x \in InputTexts(n) :
                        \A i \in 1..Len(x.seps) :
                          x.seps[i] = " " => ~x.tokens[i + 1].zone}
  /\ results = None
  /\ IdleSplit /\ IdleBlock /\ IdleNorm /\ IdleAgg /\ IdleCodec /\ IdleModal

\* results = normalizeInput(inputText)
NormalizeInput ==
  /\ pc = "text"
  /\ results' = normalizeInput(inputText)
  /\ pc' = "results"
  /\ UNCHANGED <<inputText, splitVars, blockVars, normVars, aggVars, codecVars,
                 modalVars>>

NextInput == NormalizeInput

SpecInput == InitInput /\ [][NextInput]_vars

\* C13: normalizeInput returns a list of results, each with one of the three
\* statuses, and every token of the text has its own result in it, unless
\* the token is the address or the mask of an IPv4 "address mask" entry that
\* has one result: no token keeps another from being normalized.
C13_EveryTokenNormalized ==
  pc = "results" =>
    /\ \A k \in 1..Len(results) : results[k].status \in {VALID, CORRECTED, INVALID}
    /\ \A i \in 1..Len(inputText.tokens) :
         \E k \in 1..Len(results) :
           \/ results[k].original = inputText.tokens[i]
           \/ /\ results[k].original.tail = " "
              /\ results[k].original.addr.sep = "."
              /\ results[k].original.arg.addr.sep = "."
              /\ inputText.tokens[i].addr \in
                   {results[k].original.addr, results[k].original.arg.addr}

\* ------------------------------------------- the IPv6 codecs, step by step
\* The bare groups of a value
BareGroups(v) == <<>> \o [i \in 1..NumGroups |-> toString16(v[i])]

\* Texts with a "::" in place of any run of zero groups, the empty run and
\* the runs that are not the longest included
V6Partial ==
  {AddrText(":", SubSeq(BareGroups(t.v), 1, t.i - 1), TRUE,
            SubSeq(BareGroups(t.v), t.j + 1, NumGroups)) :
     t \in {u \in [v : V6Values, i : 1..(NumGroups + 1), j : 0..NumGroups] :
              /\ u.j >= u.i - 1
              /\ \A k \in u.i..u.j : u.v[k] = 0}}

\* The texts given to the codecs, family by family
CodecTexts ==
  << V6Texts, V6Partial, V6Bad,
     \* a group of five digits, without and with "::"
     {IPv6Text([i \in 1..NumGroups |-> <<0>> \o padStart4(toString16(v))]) :
        v \in {0, MaxGroup}},
     {AddrText(":", <<>>, TRUE, << <<0>> \o padStart4(toString16(v)) >>) :
        v \in {0, MaxGroup}},
     \* a group without digits: "1:::1", ":1::", "0:0:0:0:0:0:0:"
     {AddrText(":", << <<1>> >>, TRUE, << <<>>, <<1>> >>),
      AddrText(":", << <<>>, <<1>> >>, TRUE, <<>>),
      IPv6Text([i \in 1..NumGroups |-> IF i = NumGroups THEN <<>> ELSE <<0>>])},
     \* two "::": "1::1::1", "::::", "::1::"
     {AddrText3(<< <<1>> >>, << <<1>> >>, << <<1>> >>),
      AddrText3(<<>>, <<>>, <<>>),
      AddrText3(<<>>, << <<1>> >>, <<>>)},
     \* no IPv6 text at all
     V4Few \cup {WordText, NoText} >>

InitCodec ==
  /\ pc = "address"
  /\ \E k \in 1..Len(CodecTexts) : addrText \in CodecTexts[k]
  /\ parsed = None
  /\ expandedText = None
  /\ compressedText = None
  /\ recompressedText = None
  /\ IdleSplit /\ IdleBlock /\ IdleNorm /\ IdleAgg /\ IdleInput /\ IdleModal

\* parseIPv6(addrText) in app.js, parseIPv6ToBytes(addrText) in normalizer.js
Parse ==
  /\ pc = "address"
  /\ parsed' = [app |-> parseIPv6(addrText), norm |-> parseIPv6ToBytes(addrText)]
  /\ pc' = "parsed"
  /\ UNCHANGED <<addrText, expandedText, compressedText, recompressedText,
                 splitVars, blockVars, normVars, aggVars, inputVars, modalVars>>

\* expandIPv6(addrText) of both modules
Expand ==
  /\ pc = "parsed"
  /\ expandedText' = [app |-> expandIPv6(addrText), norm |-> normExpandIPv6(addrText)]
  /\ pc' = "expanded"
  /\ UNCHANGED <<addrText, parsed, compressedText, recompressedText,
                 splitVars, blockVars, normVars, aggVars, inputVars, modalVars>>

\* compressIPv6(addrText) of both modules
Compress ==
  /\ pc = "expanded"
  /\ compressedText' = [app |-> compressIPv6(addrText),
                        norm |-> normCompressIPv6(addrText)]
  /\ pc' = "compressed"
  /\ UNCHANGED <<addrText, parsed, expandedText, recompressedText,
                 splitVars, blockVars, normVars, aggVars, inputVars, modalVars>>

\* compressIPv6(expandIPv6(addrText)) of both modules; the normalizer calls
\* compressIPv6 on an expanded text only, never on null
Recompress ==
  /\ pc = "compressed"
  /\ recompressedText' =
       [app |-> compressIPv6(expandedText.app),
        norm |-> IF expandedText.norm = NoText THEN NoText
                 ELSE normCompressIPv6(expandedText.norm)]
  /\ pc' = "recompressed"
  /\ UNCHANGED <<addrText, parsed, expandedText, compressedText,
                 splitVars, blockVars, normVars, aggVars, inputVars, modalVars>>

NextCodec == Parse \/ Expand \/ Compress \/ Recompress

SpecCodec == InitCodec /\ [][NextCodec]_vars

\* A group of 1 to 4 hex digits within the group's range
ValidGroup(g) == Len(g) \in 1..4 /\ parseInt16(g) <= MaxGroup

\* A valid IPv6 address text: at most one "::", the groups present and the
\* zero groups "::" stands for are 8 in all, every group present is valid
ValidIPv6Text(a) ==
  /\ a.sep = ":"
  /\ ~MoreParts(a)
  /\ IF a.dc THEN Len(a.left) + Len(a.right) <= NumGroups
             ELSE Len(a.left) = NumGroups
  /\ \A i \in 1..Len(a.left) : ValidGroup(a.left[i])
  /\ \A i \in 1..Len(a.right) : ValidGroup(a.right[i])

\* C15: parseIPv6 (app.js) and parseIPv6ToBytes (normalizer.js) return bytes
\* for a text exactly when it has at most one "::", its groups and the zero
\* groups filled in for "::" are 8 in all, and every group present has 1 to
\* 4 hex digits; for every other text they return null.
C15_AcceptsExactlyValid ==
  pc # "address" =>
    /\ parsed.app # Null <=> ValidIPv6Text(addrText)
    /\ parsed.norm # Null <=> ValidIPv6Text(addrText)

\* The groups a valid text denotes, in lowercase without leading zeros
TextGroups(a) ==
  LET gap == NumGroups - Len(a.left) - Len(a.right)
      gs  == a.left \o ZeroGroups(gap) \o a.right
  IN <<>> \o [i \in 1..NumGroups |-> toString16(parseInt16(gs[i]))]

\* Groups i..(i + n - 1) of g are all zero
ZeroRun(g, i, n) ==
  /\ i >= 1 /\ n >= 1 /\ i + n - 1 <= Len(g)
  /\ \A k \in i..(i + n - 1) : g[k] = <<0>>

\* The text r is the groups g with the longest run of two or more zero
\* groups, the leftmost of the longest, as "::", or g as it is without such
\* a run
ShortestForm(r, g) ==
  LET s == Len(r.left) + 1
      n == NumGroups - Len(r.left) - Len(r.right)
  IN /\ r.sep = ":" /\ ~MoreParts(r)
     /\ IF \E i \in 1..(NumGroups - 1) : ZeroRun(g, i, 2)
        THEN /\ r.dc
             /\ n >= 2
             /\ r.left = SubSeq(g, 1, s - 1)
             /\ r.right = SubSeq(g, s + n, NumGroups)
             /\ ZeroRun(g, s, n)
             /\ \A i \in 1..NumGroups, m \in 1..NumGroups :
                  ZeroRun(g, i, m) => m < n \/ (m = n /\ i >= s)
        ELSE ~r.dc /\ r.left = g
     /\ (\A k \in 1..NumGroups : g[k] = <<0>>) => r = AddrText(":", <<>>, TRUE, <<>>)

FullForm(a) ==
  /\ a.sep = ":" /\ ~a.dc
  /\ Len(a.left) = NumGroups
  /\ \A i \in 1..NumGroups :
       Len(a.left[i]) = 4 /\ \A k \in 1..4 : a.left[i][k] \in 0..15

charCode(d) == IF d < 10 THEN 48 + d ELSE 87 + d

\* groups.join(":") as character codes, from group i on
RECURSIVE JoinGroups(_, _)
JoinGroups(groups, i) ==
  IF i > Len(groups) THEN <<>>
  ELSE [k \in 1..Len(groups[i]) |-> charCode(groups[i][k])]
       \o (IF i < Len(groups) THEN <<58>> ELSE <<>>)
       \o JoinGroups(groups, i + 1)

\* An address text as character codes
TextChars(a) ==
  JoinGroups(a.left, 1)
  \o (IF a.dc THEN <<58, 58>> \o JoinGroups(a.right, 1) ELSE <<>>)

\* x < y on strings: by the first differing character, a proper prefix first
StringLess(x, y) ==
  \E k \in 1..(Len(x) + 1) :
    /\ k <= Len(y)
    /\ \A j \in 1..(k - 1) : x[j] = y[j]
    /\ (k = Len(x) + 1 \/ x[k] < y[k])

\* The comparator of sortCIDRModels: negative, zero or positive
compareModels(a, b) ==
  IF a.version # b.version
  THEN (IF a.version = IPv4 THEN -1 ELSE 1)
  ELSE IF a.version = IPv4
  THEN (IF a.startAddress # b.startAddress
        THEN a.startAddress - b.startAddress
        ELSE a.prefix - b.prefix)
  ELSE IF a.expandedAddress # b.expandedAddress
  THEN (IF \E x \in {TextChars(a.expandedAddress)}, y \in {TextChars(b.expandedAddress)} :
             StringLess(x, y)
        THEN -1 ELSE 1)
  ELSE IF a.startAddress # b.startAddress
  THEN (IF a.startAddress < b.startAddress THEN -1 ELSE 1)
  ELSE a.prefix - b.prefix

\* Array.prototype.sort with the comparator: the sort is stable, so the
\* element at index i lands behind those that compare below it and those
\* that compare equal to it and stand before it
SortedIndex(cidrModels, i) ==
  1 + Cardinality({j \in 1..Len(cidrModels) :
                     \/ compareModels(cidrModels[j], cidrModels[i]) < 0
                     \/ /\ compareModels(cidrModels[j], cidrModels[i]) = 0
                        /\ j < i})

sortCIDRModels(cidrModels) ==
  <<>> \o [p \in 1..Len(cidrModels) |->
            cidrModels[CHOOSE i \in 1..Len(cidrModels) :
                         SortedIndex(cidrModels, i) = p]]

\* ----------------------------------------------------------------- sortCIDRs
\* compareCIDR with the prefixes subtracted the wrong way round
compareCIDRNarrowFirst(a, b) ==
  LET isAIPv4 == a.address.sep = "."
      isBIPv4 == b.address.sep = "."
      numA == IF isAIPv4 THEN ipv4ToNumber(a.address) ELSE ipv6ToNumber(a.address)
      numB == IF isAIPv4 THEN ipv4ToNumber(b.address) ELSE ipv6ToNumber(b.address)
  IN IF isAIPv4 /\ ~isBIPv4 THEN -1
     ELSE IF ~isAIPv4 /\ isBIPv4 THEN 1
     ELSE IF numA # numB
     THEN (IF isAIPv4 THEN numA - numB ELSE IF numA < numB THEN -1 ELSE 1)
     ELSE b.prefix - a.prefix

\* app.js compareCIDR: negative, zero or positive; numA and numB are
\* ipv4ToNumber of both addresses in the IPv4 branch, ipv6ToNumber in the other
compareCIDR(a, b) ==
  LET isAIPv4 == a.address.sep = "."
      isBIPv4 == b.address.sep = "."
      numA == IF isAIPv4 THEN ipv4ToNumber(a.address) ELSE ipv6ToNumber(a.address)
      numB == IF isAIPv4 THEN ipv4ToNumber(b.address) ELSE ipv6ToNumber(b.address)
  IN IF isAIPv4 /\ ~isBIPv4 THEN -1
     ELSE IF ~isAIPv4 /\ isBIPv4 THEN 1
     ELSE IF numA # numB
     THEN (IF isAIPv4 THEN numA - numB ELSE IF numA < numB THEN -1 ELSE 1)
     ELSE a.prefix - b.prefix

\* app.js sortCIDRs: [...cidrs].sort(compareCIDR), a stable sort
sortCIDRs(cidrList) ==
  LET index(i) ==
        1 + Cardinality({j \in 1..Len(cidrList) :
                           \E c \in {compareCIDR(cidrList[j], cidrList[i])} :
                             c < 0 \/ (c = 0 /\ j < i)})
  IN <<>> \o [p \in 1..Len(cidrList) |->
               cidrList[CHOOSE i \in 1..Len(cidrList) : index(i) = p]]

\* --------------------------------------------------------------- aggregation
\* merge() is imported from the fast-cidr-tools package; it is modelled from
\* the specification of the BlockSplitter and the Aggregator, over the
\* CIDRBlock each CIDR string denotes.

\* BlockSplitter: the number of host bits of the largest block that is
\* aligned at cur and ends at or before e, searched upward from h
RECURSIVE LargestBlock(_, _, _, _)
LargestBlock(cur, e, width, h) ==
  IF h < width /\ cur % Pow2(h + 1) = 0 /\ cur + Pow2(h + 1) - 1 <= e
  THEN LargestBlock(cur, e, width, h + 1)
  ELSE h

\* The block of the given family at a numeric address
BlockAt(s, prefix, version) ==
  CIDRBlock(IF version = IPv4 THEN numberToIPv4(s) ELSE numberToIPv6(s),
            prefix, version)

\* BlockSplitter.split(start, end, family)
RECURSIVE split(_, _, _)
split(s, e, version) ==
  IF s > e THEN <<>>
  ELSE LET width == IF version = IPv4 THEN V4Width ELSE V6Width
           h == LargestBlock(s, e, width, 0)
       IN <<BlockAt(s, width - h, version)>> \o split(s + Pow2(h), e, version)

\* Sort by start ascending, then by prefix length ascending
InsertByStart(sorted, b) ==
  LET n == Cardinality({i \in 1..Len(sorted) :
                          \/ sorted[i].startAddress < b.startAddress
                          \/ /\ sorted[i].startAddress = b.startAddress
                             /\ sorted[i].prefix <= b.prefix})
  IN SubSeq(sorted, 1, n) \o <<b>> \o SubSeq(sorted, n + 1, Len(sorted))

RECURSIVE SortByStart(_, _)
SortByStart(blocks, n) ==
  IF n = 0 THEN <<>> ELSE InsertByStart(SortByStart(blocks, n - 1), blocks[n])

\* The scan from block i on with running interval [lo, hi]: a block that
\* starts at or before hi + 1 is merged in, another flushes the interval
\* to the splitter and starts a new one
RECURSIVE MergeScan(_, _, _, _, _)
MergeScan(sorted, i, lo, hi, version) ==
  IF i > Len(sorted) THEN split(lo, hi, version)
  ELSE IF sorted[i].startAddress <= hi + 1
  THEN MergeScan(sorted, i + 1, lo,
                 IF sorted[i].endAddress > hi THEN sorted[i].endAddress ELSE hi,
                 version)
  ELSE split(lo, hi, version)
       \o MergeScan(sorted, i + 1, sorted[i].startAddress,
                    sorted[i].endAddress, version)

\* The pass over one family
aggregateFamily(blocks, version) ==
  LET family == SelectSeq(blocks, LAMBDA b : b.version = version)
      sorted == SortByStart(family, Len(family))
  IN IF Len(sorted) = 0 THEN <<>>
     ELSE MergeScan(sorted, 2, sorted[1].startAddress, sorted[1].endAddress,
                    version)

\* The families concatenated the wrong way round
aggregateIPv6First(blocks) ==
  aggregateFamily(blocks, IPv6) \o aggregateFamily(blocks, IPv4)

\* Aggregator.aggregate(blocks)
aggregate(blocks) ==
  aggregateFamily(blocks, IPv4) \o aggregateFamily(blocks, IPv6)

\* cidrs.map((cidr) => CIDRBlock.fromCIDRString(cidr)), the first n
RECURSIVE ModelsOf(_, _)
ModelsOf(cidrList, n) ==
  IF n = 0 THEN <<>>
  ELSE Append(ModelsOf(cidrList, n - 1), fromCIDRString(cidrList[n]))

\* models.map((m) => m.toCIDRString()), the first n
RECURSIVE StringsOf(_, _)
StringsOf(models, n) ==
  IF n = 0 THEN <<>>
  ELSE Append(StringsOf(models, n - 1), toCIDRString(models[n]))

\* A CIDR string merge() can parse
Parseable(c) ==
  \/ c.address.sep = "." /\ isValidIPv4Address(c.address)
  \/ c.address.sep = ":" /\ parseIPv6(c.address) # Null

\* merge(cidrs): the aggregated CIDR strings; Null stands for a throw
merge(cidrList) ==
  IF \E i \in 1..Len(cidrList) : ~Parseable(cidrList[i]) THEN Null
  ELSE LET merged == aggregate(ModelsOf(cidrList, Len(cidrList)))
       IN StringsOf(merged, Len(merged))

\* aggregateCIDRs with the empty-list test off by one
aggregateCIDRsShortList(cidrList) ==
  IF Len(cidrList) <= 1 THEN <<>>
  ELSE LET merged == merge(cidrList)
       IN IF merged = Null THEN cidrList ELSE merged

\* aggregateCIDRs handing its argument back, as its catch branch does
aggregateCIDRsNoMerge(cidrList) == cidrList

\* app.js aggregateCIDRs
aggregateCIDRs(cidrList) ==
  IF Len(cidrList) = 0 THEN <<>>
  ELSE LET merged == merge(cidrList)
       IN IF merged = Null THEN cidrList ELSE merged

\* --------------------------------------------------------- transformToFormat
\* The keys of FormatRegistry
RegisteredFormats ==
  {"cidr", "cisco-acl", "cisco-prefix-list", "cisco-wildcard", "ip-mask",
   "fortigate", "cisco-ipv6-acl", "juniper-ipv6", "palo-alto", "iptables",
   "ufw", "aws-sg", "gcp-firewall", "azure-nsg", "reverse-dns"}

\* FormatRegistry[formatName]: a transformer; or, FormatRegistry being an
\* object literal, a property inherited from Object.prototype, which is
\* truthy and has no format method; or undefined
FormatRegistry(formatName) ==
  LET inherited ==
        {"constructor", "toString", "toLocaleString", "valueOf",
         "hasOwnProperty", "isPrototypeOf", "propertyIsEnumerable", "__proto__",
         "__defineGetter__", "__defineSetter__", "__lookupGetter__",
         "__lookupSetter__"}
  IN IF formatName \in RegisteredFormats
     THEN [defined |-> TRUE, transformer |-> formatName]
     ELSE IF formatName \in inherited
     THEN [defined |-> TRUE, transformer |-> "inherited"]
     ELSE [defined |-> FALSE, transformer |-> "undefined"]

\* cidrModels.map((c) => c.toCIDRString()).join("\n"), line by line
CIDRLines(cidrModels) == StringsOf(cidrModels, Len(cidrModels))

\* cidrBlocks.filter((b) => b.version === version)
FilterVersion(cidrBlocks, version) ==
  SelectSeq(cidrBlocks, LAMBDA b : b.version = version)

\* The loop of CiscoWildcardTransformer.format over the blocks given:
\* toWildcard throws for an IPv6 block
WildcardLines(blocks) ==
  IF \E i \in 1..Len(blocks) : blocks[i].version = IPv6
  THEN [threw |-> TRUE, output |-> None]
  ELSE [threw |-> FALSE,
        output |-> <<>> \o [i \in 1..Len(blocks) |->
                              [address |-> blocks[i].address,
                               wildcard |-> toWildcard(blocks[i])]]]

\* console.warn(`CiscoWildcardTransformer skipped ${n} IPv6 blocks`)
SkippedWarning(ipv6Blocks) ==
  IF Len(ipv6Blocks) > 0
  THEN <<"CiscoWildcardTransformer skipped ", Len(ipv6Blocks), " IPv6 blocks">>
  ELSE <<>>

\* CiscoWildcardTransformer.format with the loop over all the blocks
CiscoWildcardUnfiltered(cidrBlocks) ==
  WildcardLines(cidrBlocks)
    @@ [warning |-> SkippedWarning(FilterVersion(cidrBlocks, IPv6))]

\* CiscoWildcardTransformer.format: the lines `${block.address} ${wildcard}`
\* and what it writes with console.warn
CiscoWildcardTransformer(cidrBlocks) ==
  WildcardLines(FilterVersion(cidrBlocks, IPv4))
    @@ [warning |-> SkippedWarning(FilterVersion(cidrBlocks, IPv6))]

\* CiscoIPv6ACLTransformer.format: a line for every block of the list
CiscoIPv6ACLTransformer(cidrBlocks) ==
  <<>> \o [i \in 1..Len(cidrBlocks) |->
            [text |-> "ipv6 access-list FIREWALL permit ",
             cidr |-> toCIDRString(cidrBlocks[i])]]

\* app.js transformToFormat: what it returns or that it throws, and what it
\* writes with console.error and console.warn.  Of the transformers the
\* cidr, cisco-wildcard and cisco-ipv6-acl ones are rendered here.
transformToFormat(cidrModels, formatName) ==
  LET transformer == FormatRegistry(formatName)
      quiet == [diagnostic |-> <<>>, warning |-> <<>>]
  IN IF ~transformer.defined
     THEN [threw |-> FALSE, output |-> CIDRLines(cidrModels),
           diagnostic |-> <<"Unknown format: ", formatName>>, warning |-> <<>>]
     ELSE IF transformer.transformer = "inherited"
     THEN [threw |-> TRUE, output |-> None] @@ quiet
     ELSE IF transformer.transformer = "cidr"
     THEN [threw |-> FALSE, output |-> CIDRLines(cidrModels)] @@ quiet
     ELSE IF transformer.transformer = "cisco-wildcard"
     THEN CiscoWildcardTransformer(cidrModels) @@ quiet
     ELSE IF transformer.transformer = "cisco-ipv6-acl"
     THEN [threw |-> FALSE, output |-> CiscoIPv6ACLTransformer(cidrModels)] @@ quiet
     ELSE [threw |-> FALSE, output |-> None] @@ quiet

\* The format names given: the default, two IPv4-only or IPv6-only formats,
\* one that no object has, and one that every object inherits
FormatNames == {"cidr", "cisco-wildcard", "cisco-ipv6-acl", "unknown-format", "toString"}

\* ------------------------------------------------- aggregation, step by step
\* The longest list of CIDR strings given
MaxBlocks == 3

\* The CIDR strings given: network-aligned blocks in canonical text.  Of
\* each family the two lowest addresses, the last address and the whole
\* space, and of IPv4 the block of the addresses 2 and 3.
AggCIDRs4 ==
  {CIDRString(numberToIPv4(k * Pow2(h)), V4Width - h) :
     <<h, k>> \in {<<0, 0>>, <<0, 1>>, <<1, 1>>}}
  \cup {CIDRString(numberToIPv4(MaxAddr4), V4Width),
        CIDRString(numberToIPv4(0), 0)}

AggCIDRs6 ==
  {CIDRString(compressIPv6(numberToIPv6(k)), V6Width) : k \in {0, 1}}
  \cup {CIDRString(compressIPv6(numberToIPv6(MaxAddr6)), V6Width),
        CIDRString(compressIPv6(numberToIPv6(0)), 0)}

AggInputs == UNION {[1..n -> AggCIDRs4 \cup AggCIDRs6] : n \in 0..MaxBlocks}

InitAgg ==
  /\ pc = "input"
  /\ input \in AggInputs
  /\ aggregated = None
  /\ reaggregated = None
  /\ sortedCIDRs = None
  /\ transformed = None
  \* let sortedInput = null; let aggregatedOutput = null;
  \* let currentFormat = "cidr"
  /\ sortedInput = Null
  /\ aggregatedOutput = Null
  /\ currentFormat = "cidr"
  /\ IdleSplit /\ IdleBlock /\ IdleNorm /\ IdleCodec /\ IdleInput /\ IdleModal

\* aggregateCIDRs(input): it returns on either path, from the try block or
\* from the catch block
Aggregate ==
  /\ pc \in {"input", "unparseable"}
  /\ aggregated' = aggregateCIDRs(input)
  /\ pc' = IF pc = "input" THEN "aggregated" ELSE "returned"
  /\ UNCHANGED <<input, reaggregated, sortedInput, aggregatedOutput, currentFormat,
                 sortedCIDRs, transformed,
                 splitVars, blockVars, normVars, codecVars, inputVars,
                 modalVars>>

\* aggregateCIDRs of what aggregateCIDRs returned
Reaggregate ==
  /\ pc = "aggregated"
  /\ reaggregated' = aggregateCIDRs(aggregated)
  /\ pc' = "reaggregated"
  /\ UNCHANGED <<input, aggregated, sortedInput, aggregatedOutput, currentFormat,
                 sortedCIDRs, transformed,
                 splitVars, blockVars, normVars, codecVars, inputVars,
                 modalVars>>

\* aggregateAddresses from the extracted CIDR strings on: nothing to do for
\* none; else the models, sorted, their strings, those aggregated, and the
\* aggregated models transformed (transformationTiming is "after")
AggregateAddresses ==
  /\ pc = "input"
  /\ IF Len(input) = 0
     THEN /\ pc' = "rejected"
          /\ UNCHANGED <<sortedInput, aggregatedOutput, transformed>>
     ELSE LET cidrModels == ModelsOf(input, Len(input))
              sorted == sortCIDRModels(cidrModels)
              sortedStrings == StringsOf(sorted, Len(sorted))
          IN \E strings \in {sortedStrings} :
               \E aggregatedStrings \in {aggregateCIDRs(strings)} :
                 /\ sortedInput' = strings
                 /\ aggregatedOutput' = aggregatedStrings
                 /\ transformed' =
                      [key |-> currentFormat] @@
                      transformToFormat(
                        ModelsOf(aggregatedStrings, Len(aggregatedStrings)),
                        currentFormat)
                 /\ pc' = "piped"
  /\ UNCHANGED <<input, aggregated, reaggregated, currentFormat, sortedCIDRs,
                 splitVars, blockVars, normVars, codecVars, inputVars,
                 modalVars>>

\* sortCIDRs(input) on the strings, sortCIDRModels on their models
Sort ==
  /\ pc = "input"
  /\ sortedCIDRs' = [strings |-> sortCIDRs(input),
                     models |-> sortCIDRModels(ModelsOf(input, Len(input)))]
  /\ pc' = "sorted"
  /\ UNCHANGED <<input, aggregated, reaggregated, sortedInput, aggregatedOutput,
                 currentFormat, transformed,
                 splitVars, blockVars, normVars, codecVars, inputVars,
                 modalVars>>

\* transformToFormat(cidrModels, formatName), for one of the keys
Transform ==
  /\ pc = "input"
  /\ \E name \in FormatNames :
       transformed' = [key |-> name] @@
                      transformToFormat(ModelsOf(input, Len(input)), name)
  /\ pc' = "transformed"
  /\ UNCHANGED <<input, aggregated, reaggregated, sortedInput, aggregatedOutput,
                 currentFormat, sortedCIDRs,
                 splitVars, blockVars, normVars, codecVars, inputVars,
                 modalVars>>

\* CIDR strings that are no CIDR: a word, an octet and a group out of range
UnparseableCIDRs ==
  {CIDRString(WordText, 0),
   CIDRString(IPv4Text([i \in 1..NumOctets |-> toString10(MaxOctet + 1)]), V4Width),
   CIDRString(IPv6Text([i \in 1..NumGroups |-> toString16(MaxGroup + 1)]), V6Width)}

\* The caller puts an unparseable string at the front or at the back of the
\* list it hands to aggregateCIDRs
HandUnparseable ==
  /\ pc = "input"
  /\ \E bad \in UnparseableCIDRs, front \in BOOLEAN :
       input' = IF front THEN <<bad>> \o input ELSE Append(input, bad)
  /\ pc' = "unparseable"
  /\ UNCHANGED <<aggregated, reaggregated, sortedInput, aggregatedOutput,
                 currentFormat, sortedCIDRs, transformed,
                 splitVars, blockVars, normVars, codecVars, inputVars,
                 modalVars>>

NextAgg ==
  \/ Aggregate \/ Reaggregate \/ AggregateAddresses
  \/ Sort \/ Transform \/ HandUnparseable

SpecAgg == InitAgg /\ [][NextAgg]_vars

\* ------------------------------------------------ what a list of CIDRs covers
\* The family of a CIDR string
FamilyOfCIDR(c) == IF c.address.sep = "." THEN IPv4 ELSE IPv6

\* The first and the last address of the block a CIDR string denotes
FirstOf(c) ==
  LET size == Pow2(WidthOfCIDR(c) - c.prefix)
  IN (TextValue(c.address) \div size) * size

LastOf(c) == FirstOf(c) + Pow2(WidthOfCIDR(c) - c.prefix) - 1

\* The family, first and last address of each of the first n blocks
RECURSIVE RangesOf(_, _)
RangesOf(cs, n) ==
  IF n = 0 THEN <<>>
  ELSE Append(RangesOf(cs, n - 1),
              [version |-> FamilyOfCIDR(cs[n]),
               first |-> FirstOf(cs[n]),
               last |-> LastOf(cs[n])])

\* The address n of the family is covered by some of the ranges
CoveredIn(n, version, rs) ==
  \E i \in 1..Len(rs) :
    rs[i].version = version /\ rs[i].first <= n /\ n <= rs[i].last

\* The addresses at which the cover of the ranges can change: address 0 and,
\* for each range, its first and last address and the one before and after
EdgesOf(version, rs) ==
  {0} \cup UNION {{rs[i].first - 1, rs[i].first, rs[i].last, rs[i].last + 1} :
                    i \in {j \in 1..Len(rs) : rs[j].version = version}}

\* Two lists cover the same addresses of each family.  It is enough that
\* they cover the same of the addresses at which either cover can change:
\* between two neighbouring such addresses neither cover changes.
SameCover(cs, ds) ==
  \E rs \in {RangesOf(cs, Len(cs))}, qs \in {RangesOf(ds, Len(ds))} :
    \A version \in {IPv4, IPv6} :
      \A n \in EdgesOf(version, rs) \cup EdgesOf(version, qs) :
        CoveredIn(n, version, rs) <=> CoveredIn(n, version, qs)

\* IPv4 before IPv6, and within a family ascending by first address
InOrder(cs) ==
  \E rs \in {RangesOf(cs, Len(cs))} :
    \A i, j \in 1..Len(rs) :
      i < j =>
        /\ rs[i].version = IPv6 => rs[j].version = IPv6
        /\ rs[i].version = rs[j].version => rs[i].first <= rs[j].first

\* No two blocks of the list overlap or are adjacent
Apart(cs) ==
  \E rs \in {RangesOf(cs, Len(cs))} :
    \A i, j \in 1..Len(rs) :
      (i # j /\ rs[i].version = rs[j].version) =>
        \/ rs[i].last + 1 < rs[j].first
        \/ rs[j].last + 1 < rs[i].first

C5_Idempotent ==
  pc = "reaggregated" => reaggregated = aggregated

C5_Witness ==
  /\ pc = "reaggregated"
  /\ Len(input) = MaxBlocks
  /\ Len(reaggregated) = 2
  /\ reaggregated[1] \notin {input[i] : i \in 1..Len(input)}
  /\ reaggregated[2] \in {input[i] : i \in 1..Len(input)}

\* C6: for a list whose blocks are pairwise neither overlapping nor
\* adjacent, aggregateCIDRs returns the same blocks, none merged or split,
\* IPv4 first and ascending by start: the list sorted.
C6_ApartIsSort ==
  (pc = "aggregated" /\ Apart(input)) =>
    /\ Len(aggregated) = Len(input)
    /\ \A i \in 1..Len(input) :
         \E j \in 1..Len(aggregated) : aggregated[j] = input[i]
    /\ InOrder(aggregated)
    /\ \E sorted \in {sortCIDRModels(ModelsOf(input, Len(input)))} :
         aggregated = StringsOf(sorted, Len(sorted))

C6_Witness ==
  /\ pc = "aggregated"
  /\ Apart(input)
  /\ Len(input) = MaxBlocks
  /\ FamilyOfCIDR(input[1]) = IPv6
  /\ FamilyOfCIDR(input[2]) = IPv4
  /\ FamilyOfCIDR(input[3]) = IPv4
  /\ FirstOf(input[3]) < FirstOf(input[2])

Precedes(c, d) ==
  \/ FamilyOfCIDR(c) = IPv4 /\ FamilyOfCIDR(d) = IPv6
  \/ /\ FamilyOfCIDR(c) = FamilyOfCIDR(d)
     /\ \/ TextValue(c.address) < TextValue(d.address)
        \/ /\ TextValue(c.address) = TextValue(d.address)
           /\ c.prefix < d.prefix

\* How often x stands in the list
CountIn(list, x) == Cardinality({i \in 1..Len(list) : list[i] = x})

\* C18: sortCIDRs on the strings and sortCIDRModels on their models give
\* the same order, a rearrangement of the list in which every IPv4 block
\* stands before every IPv6 block, within a family the lower start address
\* first, and of equal start addresses the shorter prefix first.
C18_SameTotalOrder ==
  pc = "sorted" =>
    /\ ModelsOf(sortedCIDRs.strings, Len(sortedCIDRs.strings)) = sortedCIDRs.models
    /\ Len(sortedCIDRs.strings) = Len(input)
    /\ \A i \in 1..Len(input) :
         CountIn(sortedCIDRs.strings, input[i]) = CountIn(input, input[i])
    /\ \A i, j \in 1..Len(sortedCIDRs.strings) :
         i < j => ~Precedes(sortedCIDRs.strings[j], sortedCIDRs.strings[i])

\* ::/0, 0.0.0.0/32, 0.0.0.0/0 sorted to 0.0.0.0/0, 0.0.0.0/32, ::/0
C18_Witness ==
  /\ pc = "sorted"
  /\ input = << CIDRString(compressIPv6(numberToIPv6(0)), 0),
                CIDRString(numberToIPv4(0), V4Width),
                CIDRString(numberToIPv4(0), 0) >>
  /\ sortedCIDRs.strings = << CIDRString(numberToIPv4(0), 0),
                              CIDRString(numberToIPv4(0), V4Width),
                              CIDRString(compressIPv6(numberToIPv6(0)), 0) >>

\* C19: for every block list and every key that is not a registered format
\* name, the names of built-in object properties included, transformToFormat
\* does not throw, returns exactly the cidr rendering, one address/prefix
\* per line, and writes a diagnostic that names the key.
C19_UnknownKeyFallsBack ==
  pc = "transformed" /\ transformed.key \notin RegisteredFormats =>
    /\ ~transformed.threw
    /\ transformed.output = CIDRLines(ModelsOf(input, Len(input)))
    /\ transformed.diagnostic = <<"Unknown format: ", transformed.key>>

\* C20: a string that is no parseable CIDR is fatal to aggregation:
\* aggregateCIDRs returns a list, as after a successful aggregation, only
\* when every string it was given is parseable.
C20_UnparseableIsFatal ==
  pc = "returned" => \A i \in 1..Len(input) : Parseable(input[i])


\* ------------------------------------------------- renderings of one block
\* The labels a reverse name takes from the front of a text, last one first
LeadingReversed(parts, n) == [i \in 1..n |-> parts[n + 1 - i]]

\* C22: the reverse-dns line of an IPv4 block with prefix p is its first
\* ceil(p / 8) octets, last one first, joined by dots and followed by
\* ".in-addr.arpa"; with p = 0 it is the bare "in-addr.arpa", without a
\* leading dot.
C22_ReverseIPv4 ==
  (pc = "rendered" /\ block.version = IPv4) =>
    LET n == Ceil(block.prefix, OctetBits)
    IN rendered =
         << IF n = 0 THEN Line(<<>>, "in-addr.arpa")
            ELSE Line(LeadingReversed(block.address.left, n), ".in-addr.arpa") >>

\* The block 192.168.0.0/24 at the model's octet width: two non-zero octets,
\* two zero octets, and a prefix of three octets
C23_Example ==
  CIDRString(IPv4Text(<<toString10(MaxOctet), toString10(MaxOctet), <<0>>, <<0>>>>),
             3 * OctetBits)

\* C23: 192.168.0.0/24 renders through reverse-dns to exactly the three
\* labels of its first three octets, last one first: "0.168.192.in-addr.arpa".
C23_ThreeLabels ==
  (pc = "rendered" /\ cidrString = C23_Example) =>
    rendered = << Line(<<<<0>>, toString10(MaxOctet), toString10(MaxOctet)>>,
                       ".in-addr.arpa") >>

C23_Witness ==
  /\ pc = "rendered"
  /\ cidrString = C23_Example
  /\ Len(rendered) = 1
  /\ Len(rendered[1].labels) = 3

\* C23 as stated: the line has the four labels "0.0.168.192.in-addr.arpa".
C23_FourLabels ==
  (pc = "rendered" /\ cidrString = C23_Example) =>
    rendered = << Line(<<<<0>>, <<0>>, toString10(MaxOctet), toString10(MaxOctet)>>,
                       ".in-addr.arpa") >>

\* C24: the reverse-dns line of an IPv6 block with prefix p is the first
\* ceil(p / 4) hex digits of its fully expanded address, last one first,
\* joined by dots and followed by ".ip6.arpa"; with p = 0 it is "ip6.arpa".
C24_ReverseIPv6 ==
  (pc = "rendered" /\ block.version = IPv6) =>
    LET n == Ceil(block.prefix, 4)
        hex == HexString(expandIPv6(toStartAddress(block)))
    IN rendered =
         << IF n = 0 THEN Line(<<>>, "ip6.arpa")
            ELSE Line([i \in 1..n |-> <<hex[n + 1 - i]>>], ".ip6.arpa") >>

\* C29: the netmask of an IPv4 block with prefix p is p one-bits followed by
\* zero-bits, and the wildcard mask is its complement, for every p from 0
\* (netmask 0.0.0.0, wildcard 255.255.255.255) to the full width.
C29_MasksOfPrefix ==
  (pc = "masked" /\ block.version = IPv4) =>
    /\ ~rendered.threw
    /\ ipv4ToNumber(rendered.netmask) = Pow2(V4Width) - Pow2(V4Width - block.prefix)
    /\ ipv4ToNumber(rendered.wildcard) = Pow2(V4Width - block.prefix) - 1

\* --------------------------------------------------------- subnet masks
\* The entry is an IPv4 text followed by "/" or " " and a dotted mask text
C28_MaskEntry ==
  /\ entry.addr.sep = "." /\ ~entry.zone
  /\ entry.tail \in {"/", " "}
  /\ entry.arg.isAddr /\ entry.arg.addr.sep = "."

\* The mask text is four octets, and their value is n one-bits followed by
\* zero-bits
C28_IsMaskOf(m, n) ==
  /\ Len(m.left) = NumOctets
  /\ \A i \in 1..Len(m.left) : m.left[i] # <<>> /\ parseInt10(m.left[i]) <= MaxOctet
  /\ ipv4ToNumber(m) = Pow2(V4Width) - Pow2(V4Width - n)

C27_LineOf(text, i) ==
  1 + Cardinality({j \in 1..(i - 1) : text.seps[j] = "\n"})

\* Two tokens around white space that match a single-token pattern: an IPv4
\* address followed by a subnet mask
C27_AddressAndMask(a, b) ==
  /\ ~a.zone /\ isValidIPv4Address(a.addr)
  /\ b.addr.sep = "." /\ subnetMaskToCIDRPrefix(b.addr) # -1

\* The results the statement asks for, from token i on
RECURSIVE C27_Expected(_, _)
C27_Expected(text, i) ==
  IF i > Len(text.tokens) THEN <<>>
  ELSE LET line == [lineNumber |-> C27_LineOf(text, i)]
           a == text.tokens[i]
       IN IF i < Len(text.tokens) /\ text.seps[i] = " "
          THEN LET b == text.tokens[i + 1]
               IN (IF C27_AddressAndMask(a, b)
                   THEN <<normalizeEntry(Entry(a.addr, a.zone, " ", AddrArg(b.addr)))
                          @@ line>>
                   ELSE <<normalizeEntry(a) @@ line, normalizeEntry(b) @@ line>>)
                  \o C27_Expected(text, i + 2)
          ELSE <<normalizeEntry(a) @@ line>> \o C27_Expected(text, i + 1)

\* C27: an entry between commas and line ends that has white space in it and
\* matches no single-token pattern is split at the white space, and every
\* sub-token gives one result of its own, with the 1-based number of the
\* entry's line; an entry that matches a single-token pattern (an address
\* and a subnet mask) is not split and gives exactly one result.
C27_SplitOnWhitespace ==
  pc = "results" => results = C27_Expected(inputText, 1)

\* The same, for texts in which no entry with white space has a colon
C27_SplitWithoutColon ==
  (pc = "results"
   /\ \A i \in 1..Len(inputText.seps) :
        inputText.seps[i] = " " =>
          /\ inputText.tokens[i].addr.sep # ":"
          /\ inputText.tokens[i + 1].addr.sep # ":")
  => results = C27_Expected(inputText, 1)

\* ------------------------------------------------- module state and formats
\* C21: aggregateAddresses, like every operation of the pipeline, neither
\* writes nor reads a module-level variable: the module has no variable for
\* the last output or the current format, so after a call the module's
\* variables are what they were before it.
C21_NoModuleState ==
  [][pc' \in {"piped", "rejected"} =>
       UNCHANGED <<sortedInput, aggregatedOutput, currentFormat>>]_vars

\* The blocks transformed
C25_Blocks == ModelsOf(input, Len(input))

\* C25: cisco-ipv6-acl gives exactly one line "ipv6 access-list FIREWALL
\* permit <cidr>" for every IPv6 block of the list, in the order of the
\* list, and no line for an IPv4 block.
C25_OnlyIPv6Lines ==
  (pc = "transformed" /\ transformed.key = "cisco-ipv6-acl") =>
    LET ipv6Blocks == SelectSeq(C25_Blocks, LAMBDA b : b.version = IPv6)
    IN /\ ~transformed.threw
       /\ Len(transformed.output) = Len(ipv6Blocks)
       /\ \A i \in 1..Len(ipv6Blocks) :
            /\ transformed.output[i].text = "ipv6 access-list FIREWALL permit "
            /\ transformed.output[i].cidr = toCIDRString(ipv6Blocks[i])

\* C26: cisco-wildcard gives one line "address wildcard-mask" for every IPv4
\* block of the list and none for an IPv6 block, on which toWildcard is
\* never called (it would throw); with k >= 1 IPv6 blocks in the list it
\* writes a warning with the count k and does not throw.
C26_SkipsAndCounts ==
  (pc = "transformed" /\ transformed.key = "cisco-wildcard") =>
    LET ipv4Blocks == SelectSeq(C25_Blocks, LAMBDA b : b.version = IPv4)
        k == Len(C25_Blocks) - Len(ipv4Blocks)
    IN /\ ~transformed.threw
       /\ Len(transformed.output) = Len(ipv4Blocks)
       /\ \A i \in 1..Len(ipv4Blocks) :
            /\ transformed.output[i].address = ipv4Blocks[i].address
            /\ transformed.output[i].wildcard.sep = "."
       /\ k >= 1 => /\ Len(transformed.warning) = 3
                    /\ transformed.warning[2] = k
       /\ k = 0 => transformed.warning = <<>>

\* Two IPv6 blocks around an IPv4 block: one line, and a warning of two
C26_Witness ==
  /\ pc = "transformed"
  /\ transformed.key = "cisco-wildcard"
  /\ Len(input) = 3
  /\ FamilyOfCIDR(input[1]) = IPv6
  /\ FamilyOfCIDR(input[2]) = IPv4
  /\ FamilyOfCIDR(input[3]) = IPv6
  /\ Len(transformed.output) = 1
  /\ transformed.warning[2] = 2

\* --------------------------------------------------- the processing modal
\* const minTime = 1500, in milliseconds
minTime == 1500

\* The steps of the clock in minTime, the most steps it takes, and the most
\* calls of aggregateAddresses
StepsInMinTime == 3
MaxTicks == 6
MaxCalls == 2

\* The step of the clock, in milliseconds
Tick == minTime \div StepsInMinTime

\* Math.max(0, n)
Max0(n) == IF n > 0 THEN n ELSE 0

\* A call of aggregateAddresses: where it is, its startTime (the time of its
\* showModal, -1 before), when its timer is due, whether its try block
\* threw, and, for the record, the first time after its showModal at which
\* the document had no modal (-1 until then)
NoCall == [pc |-> "idle", startTime |-> -1, wake |-> -1, threw |-> FALSE, gone |-> -1]

\* The record kept when the modal leaves the document at the time now
Gone(cs, now) ==
  [j \in DOMAIN cs |->
     IF cs[j].startTime # -1 /\ cs[j].gone = -1
     THEN [cs[j] EXCEPT !.gone = now] ELSE cs[j]]

\* hideModal at the time now: the element with the id processingModal, if
\* there is one, is removed, whichever call created it
hideModal(m, cs, now) ==
  IF m # 0 THEN [modal |-> 0, calls |-> Gone(cs, now)]
  ELSE [modal |-> m, calls |-> cs]

InitModal ==
  /\ pc = "page"
  /\ clock = 0
  /\ modal = 0
  /\ calls = [i \in 1..MaxCalls |-> NoCall]
  /\ IdleSplit /\ IdleBlock /\ IdleNorm /\ IdleAgg /\ IdleCodec /\ IdleInput

\* Time passes
Advance ==
  /\ clock + Tick <= MaxTicks * Tick
  /\ clock' = clock + Tick
  /\ UNCHANGED <<pc, modal, calls, splitVars, blockVars, normVars, aggVars,
                 codecVars, inputVars>>

\* aggregateAddresses up to its await or its return, which runs without a
\* break: it returns at once for an input without a valid entry; else it
\* takes startTime, showModal replaces any modal in the document by a new
\* one, and the try block takes some time; if that throws, the finally block
\* hides the modal at once, and if not, the call awaits a timer of
\* max(0, minTime - elapsedTime)
Invoke(i) ==
  /\ calls[i].pc = "idle"
  /\ \/ /\ calls' = [calls EXCEPT ![i].pc = "returned"]
        /\ UNCHANGED <<clock, modal>>
     \/ \E elapsedTime \in {0, Tick}, throws \in BOOLEAN :
          /\ clock + elapsedTime <= MaxTicks * Tick
          /\ clock' = clock + elapsedTime
          /\ LET shown == [calls EXCEPT ![i].startTime = clock]
                 remainingTime == Max0(minTime - elapsedTime)
             IN IF throws
                THEN LET h == hideModal(i, shown, clock')
                     IN /\ modal' = h.modal
                        /\ calls' = [h.calls EXCEPT ![i].pc = "returned",
                                                    ![i].threw = TRUE]
                ELSE /\ modal' = i
                     /\ calls' = [shown EXCEPT ![i].pc = "awaiting",
                                               ![i].wake = clock' + remainingTime]
  /\ UNCHANGED <<pc, splitVars, blockVars, normVars, aggVars, codecVars, inputVars>>

\* The timer of call i fires, at its time or later, and the finally block
\* runs hideModal
Resume(i) ==
  /\ calls[i].pc = "awaiting"
  /\ clock >= calls[i].wake
  /\ LET h == hideModal(modal, calls, clock)
     IN /\ modal' = h.modal
        /\ calls' = [h.calls EXCEPT ![i].pc = "returned"]
  /\ UNCHANGED <<pc, clock, splitVars, blockVars, normVars, aggVars, codecVars,
                 inputVars>>

NextModal ==
  \/ Advance
  \/ \E i \in 1..MaxCalls : Invoke(i)
  \/ \E i \in 1..MaxCalls : Resume(i)

SpecModal == InitModal /\ [][NextModal]_vars

\* C30: for every call of aggregateAddresses that shows the modal, a call
\* that throws and a call that overlaps another one included, at least
\* 1500 ms pass between its showModal and the time the modal is gone from
\* the document.
C30_ModalStaysMinTime ==
  pc = "page" =>
    \A i \in 1..MaxCalls :
      calls[i].gone # -1 => calls[i].gone - calls[i].startTime >= minTime

\* The same, for a call that does not throw while no other call has shown
\* the modal
C30_AloneStaysMinTime ==
  pc = "page" =>
    \A i \in 1..MaxCalls :
      (/\ calls[i].gone # -1
       /\ ~calls[i].threw
       /\ \A j \in 1..MaxCalls : j # i => calls[j].startTime = -1)
      => calls[i].gone - calls[i].startTime >= minTime
====
